---- MODULE Spec2Model ----
(***************************************************************************)
(* AI-Companions Watch: the ingest -> normalize -> cluster -> rank         *)
(* pipeline (lib/pipeline), and the cursor-paginated cluster feed           *)
(* (app/api/clusters/route.ts), as state machines over the database rows.  *)
(* The pipeline takes a normalization as one step with any outcome; one    *)
(* call of normalizeAndUpdateSignal, with the provider's requests to the   *)
(* LLM API, is looked at from inside in a specification of its own.        *)
(*                                                                         *)
(* Time.  `now` is the wall clock in hours (the resolution at which the    *)
(* ranking and the ACTIVE window look at timestamps).  A cycle's budget    *)
(* check, Date.now() - startTime, is kept per cycle in `elapsed`, in       *)
(* ticks of five seconds, so that the 10 s and 5 s safety margins are 2    *)
(* and 1 ticks; each budget check reads a value no smaller than the last.  *)
(***************************************************************************)
EXTENDS Integers, Sequences, FiniteSets, TLC

\* ------------------------------------------------------------------ bounds
NumItems   == 2     \* distinct feed items (content hashes) that exist
MaxFeedLen == 2     \* items one fetch can return before the cap
MaxCycles  == 2     \* ingest cycles started in one behaviour
NumProcs   == 2     \* callers that may run runIngestCycle at the same time
NumFingerprints == 2
MaxNow     == 1     \* hours the wall clock may advance
MaxLimit   == 2     \* largest page size a client asks for
MaxElapsed == 2     \* five-second ticks a cycle's stopwatch may advance

\* Configuration (lib/env): values chosen small, every one within the
\* range the env schema admits.
DIRECT_MODE_MAX_ITEMS       == 2
DIRECT_MODE_TIMEOUT_TICKS   == 2   \* DIRECT_MODE_TIMEOUT_MS / 5000
DIRECT_MODE_LLM_CONCURRENCY == 1
NORMALIZE_MARGIN_TICKS      == 2   \* 10000 ms
CLUSTER_MARGIN_TICKS        == 1   \*  5000 ms

Procs  == 1..NumProcs
Hashes == 1..NumItems
FPs    == 1..NumFingerprints
NULL   == 0

VARIABLES
  rawSignals,   \* table RawSignal: sequence of rows, id = index
  signals,      \* table Signal: sequence of rows, id = index
  clusters,     \* table StoryCluster: sequence of rows, id = index
  runs,         \* table IngestRun: sequence of status values
  locks,        \* pg advisory transaction locks: fingerprint -> holder or NULL
  cyc,          \* per caller: the local state of its runIngestCycle call
  started,      \* number of cycles started so far
  now,          \* wall clock, hours
  hist,         \* history, read by the properties only
  walk,         \* a client paging through GET /clusters
  codec,        \* a cursor being encoded and decoded
  norm,         \* one call of normalizeAndUpdateSignal, from inside
  post,         \* a POST /ingest request and its response
  calc          \* one call of a function looked at alone: its argument, what it returned

vars == <<rawSignals, signals, clusters, runs, locks, cyc, started, now, hist,
          walk, codec, norm, post, calc>>

\* ------------------------------------------------------------- reference data
\* Feed items are identified by their content hash (generateContentHash of
\* url, external id / title, date bucket); the domain, the publication date
\* and the categories its text is about are properties of the item.  A feed
\* states the date itself and parseDate accepts any valid one: item 1 carries
\* none, item 2 one that is an hour ahead of the clock the behaviour starts at.
NoDate == -1
ItemDomain(h) == h
ItemPublishedAt(h) == IF h = 1 THEN NoDate ELSE 1
ItemCategories(h) == IF h = 1 THEN {"PRODUCT_UPDATE"} ELSE {"SAFETY_YOUTH_RISK"}

\* table SourceCredibility, weight in ten-thousandths; domains not listed are unknown
sourceCredibility == [d \in {1} |-> 9000]


\* --------------------------------------------------------------- sequences
Take(s, n) == SubSeq(s, 1, IF n < Len(s) THEN n ELSE Len(s))
Range(s) == {s[i] : i \in DOMAIN s}
SeqsUpTo(S, n) == UNION {[1..k -> S] : k \in 0..n}
Min(a, b) == IF a < b THEN a ELSE b
RECURSIVE SumOver(_, _)
SumOver(f, S) == IF S = {} THEN 0
                 ELSE LET x == CHOOSE x \in S : TRUE
                      IN f[x] + SumOver(f, S \ {x})

\* ------------------------------------------------------------------ ranking
\* Scores are computed in ten-thousandths (the model checker's integers are
\* 32 bits wide) and rounded to thousandths at the end, as
\* Math.round(score * 1000) does.
RANKING_MAX_DOMAINS == 6
RANKING_RECENCY_DECAY_HOURS == 24
DECAY_STEP_E4 == 9592          \* exp(-1 / RANKING_RECENCY_DECAY_HOURS)
DECAY_PERIOD_E4 == 3679        \* exp(-1)

\* Math.log1p(n), ten-thousandths
Log1pE4(n) ==
  CASE n = 0 -> 0
    [] n = 1 -> 6931
    [] n = 2 -> 10986
    [] n = 3 -> 13863
    [] n = 4 -> 16094
    [] n = 5 -> 17918
    [] n = 6 -> 19459
    [] n = 7 -> 20794
    [] n = 8 -> 21972
    [] n = 9 -> 23026
    [] OTHER -> 23979

\* Math.exp(-hoursOld / decayHours), ten-thousandths
RECURSIVE ExpDecayE4(_)
ExpDecayE4(hoursOld) ==
  IF hoursOld <= 0 THEN 10000
  ELSE IF hoursOld >= RANKING_RECENCY_DECAY_HOURS
  THEN (ExpDecayE4(hoursOld - RANKING_RECENCY_DECAY_HOURS) * DECAY_PERIOD_E4) \div 10000
  ELSE (ExpDecayE4(hoursOld - 1) * DECAY_STEP_E4) \div 10000

CategoryWeightE4(c) ==
  IF c \in {"SAFETY_YOUTH_RISK", "REGULATORY_LEGAL"} THEN 15000 ELSE 10000

ClusterSignals(cid) == {i \in DOMAIN signals : signals[i].clusterId = cid}
SignalDomain(i) == rawSignals[signals[i].rawSignalId].sourceDomain

countSignalsInWindow(S, windowMinutes) ==
  Cardinality({i \in S : (now - signals[i].createdAt) * 60 <= windowMinutes})

getAverageCredibility(S) ==
  IF S = {} THEN 5000
  ELSE LET w == [i \in S |-> IF SignalDomain(i) \in DOMAIN sourceCredibility
                             THEN sourceCredibility[SignalDomain(i)]
                             ELSE 5000]
       IN SumOver(w, S) \div Cardinality(S)

\* faulty variant: the decay counted from the last ranking instead of the last signal
RecencyBase_Mutant(c) == c.lastSeenAt

\* the instant recency decays from
RecencyBase(c) == c.lastSignalAt

\* faulty variant: every distinct domain counts, without a cap
SourceDiversity_Mutant(uniqueDomains) == Cardinality(uniqueDomains) * 20000

\* Math.min(uniqueDomains.size, env.RANKING_MAX_DOMAINS) * 2.0
SourceDiversity(uniqueDomains) ==
  Min(Cardinality(uniqueDomains), RANKING_MAX_DOMAINS) * 20000

\* Math.max(...numbers)
MaxOf(numbers) == CHOOSE x \in numbers : \A y \in numbers : y <= x

\* faulty variant: the weights of the categories add up
CategoryComponent_Mutant(categories) ==
  SumOver([c \in categories |-> CategoryWeightE4(c)], categories) * 2

\* Math.max(...cluster.categories.map(weight), 1.0) * 2.0
CategoryComponent(categories) ==
  MaxOf({CategoryWeightE4(c) : c \in categories} \cup {10000}) * 2

\* computeImportanceScore: the breakdown
ScoreBreakdown(cs, cid) ==
  [sourceDiversity |-> SourceDiversity({SignalDomain(i) : i \in ClusterSignals(cid)}),
   velocity |-> Log1pE4(countSignalsInWindow(ClusterSignals(cid), 60)) * 3,
   credibility |-> (getAverageCredibility(ClusterSignals(cid)) * 3) \div 2,
   category |-> CategoryComponent(cs[cid].categories),
   recency |-> ExpDecayE4(now - RecencyBase(cs[cid])),
   manual |-> cs[cid].manualBoost * 50000]

\* Object.values(breakdown).reduce((a, b) => a + b, 0)
BreakdownTotal(b) ==
  b.sourceDiversity + b.velocity + b.credibility + b.category + b.recency + b.manual

\* computeImportanceScore: scoreMillis
computeImportanceScore(cs, cid) == (BreakdownTotal(ScoreBreakdown(cs, cid)) + 5) \div 10

\* updateClusterRanking(clusterId): the table after the update
RankedClusters(cs, cid) ==
  IF cid \notin DOMAIN cs THEN cs
  ELSE [cs EXCEPT ![cid].importanceScore = computeImportanceScore(cs, cid),
                  ![cid].lastSeenAt = now]

\* ------------------------------------------------------------ pipeline state
CLUSTER_ACTIVE_DAYS == 7
ActiveWindowHours == CLUSTER_ACTIVE_DAYS * 24

\* `repeat` is history: every item the cycle fetched was already stored;
\* `threw` is the step of the coordinator whose error reached the catch block
IdleCyc == [pc |-> "idle", run |-> 0, elapsed |-> 0, items |-> <<>>, i |-> 1,
            created |-> <<>>, next |-> 1, inflight |-> {}, normalized |-> <<>>,
            k |-> 1, target |-> NULL, repeat |-> FALSE, threw |-> "none"]

\* history: the pairs of signals whose assignment transactions overlapped, the
\* signals attached by phase-2 similarity, and whether an insert ever hit the
\* unique fingerprint index
NoHist == [overlapped |-> {}, bySimilarity |-> {}, p2002 |-> FALSE]

\* The database is empty, or holds what an earlier cycle left: one accepted
\* signal of an item no feed carries any more, in a cluster of its own whose
\* fingerprint (an earlier day's) no new signal has.
EarlierHash == NumItems + 1
EarlierFingerprint == NumFingerprints + 1
EarlierRawSignals == <<[contentHash |-> EarlierHash, sourceDomain |-> ItemDomain(EarlierHash)]>>
EarlierSignals ==
  <<[rawSignalId |-> 1, ingestStatus |-> "ACCEPTED", clusterId |-> 1,
     fingerprint |-> EarlierFingerprint, categories |-> {"PRODUCT_UPDATE"},
     publishedAt |-> NoDate, createdAt |-> 0]>>
EarlierClusters ==
  <<[fingerprint |-> EarlierFingerprint, status |-> "ACTIVE",
     categories |-> {"PRODUCT_UPDATE"}, firstSeenAt |-> 0, lastSignalAt |-> 0,
     lastSeenAt |-> 0, importanceScore |-> 0, manualBoost |-> 0]>>

InitPipeline ==
  /\ locks = [f \in FPs |-> NULL]
  /\ cyc = [p \in Procs |-> IdleCyc]
  /\ started = 0
  /\ hist = NoHist

NoWalk == [phase |-> "none"]
NoCodec == [phase |-> "none"]
NoNorm == [pc |-> "none"]
NoPost == [phase |-> "none"]
NoCalc == [phase |-> "none"]

InitDb ==
  /\ now = 0
  /\ \E earlier \in BOOLEAN :
       IF earlier
       THEN /\ rawSignals = EarlierRawSignals
            /\ signals = EarlierSignals
            /\ clusters = RankedClusters(EarlierClusters, 1)
            /\ runs = <<"COMPLETED">>
       ELSE /\ rawSignals = <<>>
            /\ signals = <<>>
            /\ clusters = <<>>
            /\ runs = <<>>
  /\ InitPipeline

Init == InitDb /\ walk = NoWalk /\ codec = NoCodec /\ norm = NoNorm /\ post = NoPost
        /\ calc = NoCalc

Running(p) == cyc[p].pc # "idle"

\* faulty variant: the coordinator goes on once the last mapper has started
MappersSettled_Mutant(rec) == rec.next > Len(rec.created)

\* await pMap(...): every mapper has been started and has returned
MappersSettled(rec) == rec.next > Len(rec.created) /\ rec.inflight = {}

\* control flow of runIngestCycle between its awaits: a loop that has run out
\* of work hands over to the next phase
Advance(rec) ==
  LET a == IF rec.pc = "store" /\ rec.i > Len(rec.items)
           THEN [rec EXCEPT !.pc = "normalize"] ELSE rec
      b == IF a.pc = "normalize" /\ MappersSettled(a)
           THEN [a EXCEPT !.pc = "cluster"] ELSE a
  IN IF b.pc = "cluster" /\ b.k > Len(b.normalized)
     THEN [b EXCEPT !.pc = "sweep"] ELSE b

Step(p, rec) == cyc' = [cyc EXCEPT ![p] = Advance(rec)]

\* What a step of the pipeline means to the other variables: a client's walk,
\* if one is going on, keeps its history; the codec, the calls looked at from
\* inside and the request are not involved.
Observed ==
  IF walk.phase # "walking" THEN walk
  ELSE [walk EXCEPT
          !.changed = @ \/ \E c \in 1..walk.baseLen :
                             \/ clusters'[c].importanceScore # clusters[c].importanceScore
                             \/ clusters'[c].lastSignalAt # clusters[c].lastSignalAt,
          !.inserted = @ \cup (DOMAIN clusters' \ DOMAIN clusters)]

Elsewhere == walk' = Observed /\ UNCHANGED <<codec, norm, post, calc>>

\* isSignalDuplicate(contentHash)
isSignalDuplicate(h) == \E r \in DOMAIN rawSignals : rawSignals[r].contentHash = h

\* fetchFromSources(maxItems): the feeds' items in feed order, cut at maxItems
FetchedItems(allItems, maxItems) == Take(allItems, maxItems)

\* runIngestCycle up to the store loop, when the feeds hold allItems:
\* startTime = Date.now(), createIngestRun, fetchFromSources (which writes
\* nothing).  Callers are interchangeable: a new one takes the lowest free slot.
CycleOver(p, allItems) ==
  /\ cyc[p].pc = "idle"
  /\ \A q \in Procs : q < p => Running(q)
  /\ started < MaxCycles
  /\ runs' = Append(runs, "RUNNING")
  /\ started' = started + 1
  /\ Step(p, [IdleCyc EXCEPT !.pc = "store", !.run = Len(runs) + 1,
                !.items = FetchedItems(allItems, DIRECT_MODE_MAX_ITEMS),
                !.repeat = \A i \in DOMAIN FetchedItems(allItems, DIRECT_MODE_MAX_ITEMS) :
                              isSignalDuplicate(allItems[i])])
  /\ UNCHANGED <<rawSignals, signals, clusters, locks, now, hist>>

\* the feeds hold whatever they hold
BeginCycle(p) == \E allItems \in SeqsUpTo(Hashes, MaxFeedLen) : CycleOver(p, allItems)

\* a cycle begins, whoever called for it
StartCycle(p) == BeginCycle(p) /\ Elsewhere

\* faulty variant: the table without its unique index
ContentHashFree_Mutant(h) == TRUE

\* the unique index RawSignal_contentHash_key: may a row with this hash be inserted
ContentHashFree(h) == \A r \in DOMAIN rawSignals : rawSignals[r].contentHash # h

\* faulty variant: a duplicate hands back the Signal already stored for the hash
DuplicateResult_Mutant(h) ==
  <<CHOOSE s \in DOMAIN signals : rawSignals[signals[s].rawSignalId].contentHash = h>>

\* storeRawSignal returns null for a duplicate: processFetchedItems counts it
\* and adds nothing to `created`
DuplicateResult(h) == <<>>

\* processFetchedItems, one item: the duplicate check of storeRawSignal
StoreCheck(p) ==
  /\ cyc[p].pc = "store"
  /\ cyc[p].i <= Len(cyc[p].items)
  /\ IF isSignalDuplicate(cyc[p].items[cyc[p].i])
     THEN Step(p, [cyc[p] EXCEPT !.i = @ + 1,
                     !.created = @ \o DuplicateResult(cyc[p].items[cyc[p].i])])
     ELSE Step(p, [cyc[p] EXCEPT !.pc = "insert"])
  /\ UNCHANGED <<rawSignals, signals, clusters, runs, locks, started, now, hist>>
  /\ Elsewhere

\* faulty variant: the two inserts are made outside a transaction
RolledBack_Mutant(before, written) == written

\* db.$transaction: an error inside it rolls back what it has written
RolledBack(before, written) == before

\* storeRawSignal's transaction: the RawSignal, then its PENDING Signal. A
\* unique violation or a database error in either insert is caught by
\* processFetchedItems; what the transaction wrote is not visible to others
\* before the commit, so it is one step.
\*   dbOk     - FALSE: tx.rawSignal.create fails
\*   signalOk - FALSE: tx.signal.create fails
StoreInsert(p) ==
  /\ cyc[p].pc = "insert"
  /\ LET h == cyc[p].items[cyc[p].i] IN
     \E dbOk \in BOOLEAN, signalOk \in BOOLEAN :
       /\ ~dbOk => signalOk
       /\ IF dbOk /\ ContentHashFree(h)
          THEN IF signalOk
               THEN /\ rawSignals' = Append(rawSignals,
                         [contentHash |-> h, sourceDomain |-> ItemDomain(h)])
                    /\ signals' = Append(signals,
                         [rawSignalId |-> Len(rawSignals) + 1, ingestStatus |-> "PENDING",
                          clusterId |-> NULL, fingerprint |-> NULL, categories |-> {},
                          publishedAt |-> ItemPublishedAt(h), createdAt |-> now])
                    /\ Step(p, [cyc[p] EXCEPT !.pc = "store", !.i = @ + 1,
                                  !.created = Append(@, Len(signals) + 1)])
               ELSE /\ rawSignals' = RolledBack(rawSignals, Append(rawSignals,
                         [contentHash |-> h, sourceDomain |-> ItemDomain(h)]))
                    /\ Step(p, [cyc[p] EXCEPT !.pc = "store", !.i = @ + 1])
                    /\ UNCHANGED signals
          ELSE /\ Step(p, [cyc[p] EXCEPT !.pc = "store", !.i = @ + 1])
               /\ UNCHANGED <<rawSignals, signals>>
  /\ UNCHANGED <<clusters, runs, locks, started, now, hist>>
  /\ Elsewhere

\* ------------------------------------------------------------- normalization
\* What the LLM call and the decision of normalizeSignal can give for one
\* signal: the status, and for an accepted one the fingerprint its headline,
\* platforms and date hash to, and its categories.
NormalizeOutputs(sid) ==
  [ingestStatus : {"REJECTED", "FAILED"}, fingerprint : {NULL}, categories : {{}}]
    \cup [ingestStatus : {"ACCEPTED"}, fingerprint : FPs,
          categories : {ItemCategories(rawSignals[signals[sid].rawSignalId].contentHash)}]

\* Date.now() - startTime, read now: no smaller than at the last reading
ClockReadings(p) == cyc[p].elapsed .. MaxElapsed

\* faulty variant: the mapper leaves the margin of the clustering loop
NormalizeBudgetLeft_Mutant(e) ==
  ~(e > DIRECT_MODE_TIMEOUT_TICKS - CLUSTER_MARGIN_TICKS)

\* the mapper's time check
NormalizeBudgetLeft(e) ==
  ~(e > DIRECT_MODE_TIMEOUT_TICKS - NORMALIZE_MARGIN_TICKS)

\* faulty variant: every mapper is started at once
MapperSlotFree_Mutant(inflight) == TRUE

\* pMap's { concurrency }: fewer mappers than that are in flight
MapperSlotFree(inflight) == Cardinality(inflight) < DIRECT_MODE_LLM_CONCURRENCY

\* pMap starts the next mapper while fewer than `concurrency` are in flight;
\* the mapper first checks the time budget
NormStart(p) ==
  /\ cyc[p].pc = "normalize"
  /\ cyc[p].next <= Len(cyc[p].created)
  /\ MapperSlotFree(cyc[p].inflight)
  /\ \E e \in ClockReadings(p) :
       IF NormalizeBudgetLeft(e)
       THEN Step(p, [cyc[p] EXCEPT !.elapsed = e, !.next = @ + 1,
                       !.inflight = @ \cup {cyc[p].created[cyc[p].next]}])
       ELSE Step(p, [cyc[p] EXCEPT !.elapsed = e, !.next = @ + 1])
  /\ UNCHANGED <<rawSignals, signals, clusters, runs, locks, started, now, hist>>
  /\ Elsewhere

\* faulty variant: the mapper hands on whatever it linked, accepted or not
PassedToClustering_Mutant(out, linkOk) == linkOk

\* does the mapper hand the signal on to clustering
PassedToClustering(out, linkOk) == out.ingestStatus = "ACCEPTED" /\ linkOk

\* updateSignalWithNormalization
updateSignalWithNormalization(sid, out) ==
  [signals EXCEPT ![sid].ingestStatus = out.ingestStatus,
                  ![sid].fingerprint = out.fingerprint,
                  ![sid].categories = out.categories]

\* a mapper's normalizeAndUpdateSignal returns; then linkSignalToPlatforms
\* (which may throw), then normalized.push
NormFinish(p) ==
  /\ cyc[p].pc = "normalize"
  /\ \E sid \in cyc[p].inflight, linkOk \in BOOLEAN : \E out \in NormalizeOutputs(sid) :
       /\ (out.ingestStatus # "ACCEPTED" => linkOk)
       /\ signals' = updateSignalWithNormalization(sid, out)
       /\ Step(p, [cyc[p] EXCEPT
                     !.inflight = @ \ {sid},
                     !.normalized = IF PassedToClustering(out, linkOk)
                                    THEN Append(@, sid) ELSE @])
  /\ UNCHANGED <<rawSignals, clusters, runs, locks, started, now, hist>>
  /\ Elsewhere

\* ---------------------------------------------------------------- clustering
ClusterBudgetLeft(e) ==
  ~(e > DIRECT_MODE_TIMEOUT_TICKS - CLUSTER_MARGIN_TICKS)

CurrentSignal(p) == cyc[p].normalized[cyc[p].k]

\* assignOrCreateCluster refuses a signal that is not ACCEPTED
AcceptedForClustering(sid) == signals[sid].ingestStatus = "ACCEPTED"

\* the cycle is inside the transaction of assignOrCreateCluster
InTransaction(q) == cyc[q].pc \in {"lookup", "write"}

\* clusterSignals: the budget check, then the status check of
\* assignOrCreateCluster, which opens the transaction for an ACCEPTED signal
\* (an error it throws is caught and the loop goes on)
ClusterNext(p) ==
  /\ cyc[p].pc = "cluster"
  /\ cyc[p].k <= Len(cyc[p].normalized)
  /\ \E e \in ClockReadings(p) :
       IF ~ClusterBudgetLeft(e)
       THEN /\ Step(p, [cyc[p] EXCEPT !.elapsed = e, !.pc = "sweep"])
            /\ UNCHANGED hist
       ELSE IF ~AcceptedForClustering(CurrentSignal(p))
            THEN /\ Step(p, [cyc[p] EXCEPT !.elapsed = e, !.k = @ + 1])
                 /\ UNCHANGED hist
            ELSE /\ Step(p, [cyc[p] EXCEPT !.elapsed = e, !.pc = "lookup"])
                 /\ hist' = [hist EXCEPT !.overlapped = @ \cup
                       {{CurrentSignal(p), CurrentSignal(q)} :
                          q \in {q \in Procs \ {p} :
                                   /\ InTransaction(q)
                                   /\ signals[CurrentSignal(q)].fingerprint =
                                        signals[CurrentSignal(p)].fingerprint}}]
  /\ UNCHANGED <<rawSignals, signals, clusters, runs, locks, started, now>>
  /\ Elsewhere

\* faulty variant: the transaction does not wait for the lock
LockGranted_Mutant(f) == TRUE

\* pg_advisory_xact_lock(lockKey): granted when no other transaction holds it
LockGranted(f) == locks[f] = NULL

\* tx.storyCluster.findUnique({ where: { fingerprint } }): the id, or NULL
FindByFingerprint(f) ==
  IF \E c \in DOMAIN clusters : clusters[c].fingerprint = f
  THEN CHOOSE c \in DOMAIN clusters : clusters[c].fingerprint = f
  ELSE NULL

\* findCandidateClusters: ACTIVE clusters inside the active window (which of
\* them the trigram and TF-IDF scores select depends on the texts)
CandidateClusters ==
  {c \in DOMAIN clusters : /\ clusters[c].status = "ACTIVE"
                           /\ clusters[c].lastSignalAt > now - ActiveWindowHours}

\* the transaction begins: the advisory lock (waited for), then steps 1 and 2:
\* the exact match, else the similar cluster
ClusterLookup(p) ==
  /\ cyc[p].pc = "lookup"
  /\ LockGranted(signals[CurrentSignal(p)].fingerprint)
  /\ locks' = [locks EXCEPT ![signals[CurrentSignal(p)].fingerprint] = p]
  /\ LET f == signals[CurrentSignal(p)].fingerprint IN
     IF FindByFingerprint(f) # NULL
     THEN /\ Step(p, [cyc[p] EXCEPT !.pc = "write", !.target = FindByFingerprint(f)])
          /\ UNCHANGED hist
     ELSE \E similar \in CandidateClusters \cup {NULL} :
            /\ Step(p, [cyc[p] EXCEPT !.pc = "write", !.target = similar])
            /\ hist' = IF similar = NULL THEN hist
                       ELSE [hist EXCEPT !.bySimilarity = @ \cup {CurrentSignal(p)}]
  /\ UNCHANGED <<rawSignals, signals, clusters, runs, started, now>>
  /\ Elsewhere

\* the unique index StoryCluster_fingerprint_key
FingerprintFree(f) == \A c \in DOMAIN clusters : clusters[c].fingerprint # f

\* createNewCluster: the new row
NewCluster(sid, f) ==
  [fingerprint |-> f, status |-> "ACTIVE", categories |-> signals[sid].categories,
   firstSeenAt |-> IF signals[sid].publishedAt # NoDate
                   THEN signals[sid].publishedAt ELSE signals[sid].createdAt,
   lastSignalAt |-> signals[sid].createdAt, lastSeenAt |-> now,
   importanceScore |-> 0, manualBoost |-> 0]

\* attachSignalToCluster: the two updates
AttachedSignals(sid, cid) == [signals EXCEPT ![sid].clusterId = cid]
AttachedClusters(cs, cid) == [cs EXCEPT ![cid].lastSignalAt = now, ![cid].lastSeenAt = now]

\* faulty variant: the error of clusterAndRank is not caught in the loop
AfterClusterError_Mutant(rec) == [rec EXCEPT !.pc = "failed", !.target = NULL]

\* clusterSignals' catch: the error is logged and the loop goes on
AfterClusterError(rec) == [rec EXCEPT !.pc = "cluster", !.k = @ + 1, !.target = NULL]

\* faulty variant: the statements are not in one transaction
TransactionAborted_Mutant(before, written) == written

\* db.$transaction whose callback throws, here after createNewCluster and
\* before the attach: the database gives up what the transaction wrote
TransactionAborted(before, written) == before

\* the rest of the transaction and its commit, which releases the lock.
\* Nothing it writes is visible to others before the commit, so it is one step.
\*   dbOk   - FALSE: a database error aborts the transaction
\*   reread - after a unique violation on the fingerprint (P2002): whether the
\*            re-read of the race winner succeeds, or fails as well because
\*            the database has already aborted the transaction
ClusterWrite(p) ==
  /\ cyc[p].pc = "write"
  /\ LET sid == CurrentSignal(p)
         f == signals[sid].fingerprint
         t == cyc[p].target
         committed(cid) == Step(p, [cyc[p] EXCEPT !.pc = "rank", !.target = cid])
         aborted == /\ Step(p, AfterClusterError(cyc[p]))
                    /\ clusters' = TransactionAborted(clusters,
                                      IF t = NULL /\ FingerprintFree(f)
                                      THEN Append(clusters, NewCluster(sid, f))
                                      ELSE clusters)
                    /\ UNCHANGED signals
     IN \E dbOk \in BOOLEAN, reread \in BOOLEAN :
          /\ (t # NULL \/ FingerprintFree(f) \/ ~dbOk) => reread
          /\ hist' = [hist EXCEPT !.p2002 = @ \/ (dbOk /\ t = NULL /\ ~FingerprintFree(f))]
          /\ IF ~dbOk THEN aborted
             ELSE IF t # NULL
             THEN /\ signals' = AttachedSignals(sid, t)
                  /\ clusters' = AttachedClusters(clusters, t)
                  /\ committed(t)
             ELSE IF FingerprintFree(f)
             THEN /\ signals' = AttachedSignals(sid, Len(clusters) + 1)
                  /\ clusters' = AttachedClusters(Append(clusters, NewCluster(sid, f)),
                                                  Len(clusters) + 1)
                  /\ committed(Len(clusters) + 1)
             ELSE IF reread
             THEN /\ signals' = AttachedSignals(sid, FindByFingerprint(f))
                  /\ clusters' = AttachedClusters(clusters, FindByFingerprint(f))
                  /\ committed(FindByFingerprint(f))
             ELSE aborted
  /\ locks' = [locks EXCEPT ![signals[CurrentSignal(p)].fingerprint] =
                 IF @ = p THEN NULL ELSE @]
  /\ UNCHANGED <<rawSignals, runs, started, now>>
  /\ Elsewhere

\* clusterAndRank: updateClusterRanking(clusterId) after the assignment
ClusterRank(p) ==
  /\ cyc[p].pc = "rank"
  /\ clusters' = RankedClusters(clusters, cyc[p].target)
  /\ Step(p, [cyc[p] EXCEPT !.pc = "cluster", !.k = @ + 1, !.target = NULL])
  /\ UNCHANGED <<rawSignals, signals, runs, locks, started, now, hist>>
  /\ Elsewhere

\* sweepStaleClusters
SweptClusters(cs) ==
  [c \in DOMAIN cs |->
     IF cs[c].status = "ACTIVE" /\ cs[c].lastSignalAt < now - ActiveWindowHours
     THEN [cs[c] EXCEPT !.status = "STALE"] ELSE cs[c]]

Sweep(p) ==
  /\ cyc[p].pc = "sweep"
  /\ clusters' = SweptClusters(clusters)
  /\ Step(p, [cyc[p] EXCEPT !.pc = "recompute"])
  /\ UNCHANGED <<rawSignals, signals, runs, locks, started, now, hist>>
  /\ Elsewhere

\* recomputeAllRankings: updateClusterRanking for every ACTIVE cluster
RecomputedClusters(cs) ==
  [c \in DOMAIN cs |->
     IF cs[c].status = "ACTIVE"
     THEN [cs[c] EXCEPT !.importanceScore = computeImportanceScore(cs, c),
                        !.lastSeenAt = now]
     ELSE cs[c]]

Recompute(p) ==
  /\ cyc[p].pc = "recompute"
  /\ clusters' = RecomputedClusters(clusters)
  /\ Step(p, [cyc[p] EXCEPT !.pc = "finish"])
  /\ UNCHANGED <<rawSignals, signals, runs, locks, started, now, hist>>
  /\ Elsewhere

\* updateIngestRun(run.id, { status: 'COMPLETED', ... })
Finish(p) ==
  /\ cyc[p].pc = "finish"
  /\ runs' = [runs EXCEPT ![cyc[p].run] = "COMPLETED"]
  /\ cyc' = [cyc EXCEPT ![p] = IdleCyc]
  /\ UNCHANGED <<rawSignals, signals, clusters, locks, started, now, hist>>
  /\ Elsewhere

\* the wall clock advances
Tick ==
  /\ now < MaxNow
  /\ now' = now + 1
  /\ UNCHANGED <<rawSignals, signals, clusters, runs, locks, cyc, started, hist>>
  /\ Elsewhere

\* one step of a runIngestCycle call of caller p that has begun
StepOf(p) ==
  \/ StoreCheck(p) \/ StoreInsert(p)
  \/ NormStart(p) \/ NormFinish(p)
  \/ ClusterNext(p) \/ ClusterLookup(p) \/ ClusterWrite(p) \/ ClusterRank(p)
  \/ Sweep(p) \/ Recompute(p) \/ Finish(p)

\* one step of caller p: a call of runIngestCycle begins, or goes on
NextOf(p) == StartCycle(p) \/ StepOf(p)

Next == \E p \in Procs : NextOf(p)

\* the pipeline, with callers that may overlap
Spec == Init /\ [][Next]_vars

\* ------------------------------------------- recomputeAllRankings, twice over
\* A caller outside a cycle invokes recomputeAllRankings, and then invokes it
\* again; its position is kept where a cycle's would be.
RerankFirst(p) ==
  /\ cyc[p].pc = "idle"
  /\ clusters' = RecomputedClusters(clusters)
  /\ cyc' = [cyc EXCEPT ![p] = [IdleCyc EXCEPT !.pc = "reranked"]]
  /\ UNCHANGED <<rawSignals, signals, runs, locks, started, now, hist>>
  /\ Elsewhere

RerankSecond(p) ==
  /\ cyc[p].pc = "reranked"
  /\ clusters' = RecomputedClusters(clusters)
  /\ cyc' = [cyc EXCEPT ![p] = [IdleCyc EXCEPT !.pc = "rerankedTwice"]]
  /\ UNCHANGED <<rawSignals, signals, runs, locks, started, now, hist>>
  /\ Elsewhere

RerankReturn(p) ==
  /\ cyc[p].pc = "rerankedTwice"
  /\ cyc' = [cyc EXCEPT ![p] = IdleCyc]
  /\ UNCHANGED <<rawSignals, signals, clusters, runs, locks, started, now, hist>>
  /\ Elsewhere

NextRank ==
  \/ NextOf(1)
  \/ RerankFirst(1) \/ RerankSecond(1) \/ RerankReturn(1)
  \/ Tick

\* one caller at a time: cycles and double recomputations, while the clock runs
SpecRank == Init /\ [][NextRank]_vars

\* ------------------------------------------------------------ cursor codec
\* Text is a sequence of one-character strings.  A Date is an instant in
\* milliseconds counted from 2026-01-01T00:00:00.000Z, within January 2026.
HOUR_MS == 3600000
DAY_MS == 24 * HOUR_MS

Ascii ==
  ("\"" :> 34) @@ ("," :> 44) @@ ("-" :> 45) @@ ("." :> 46) @@ (":" :> 58) @@
  ("0" :> 48) @@ ("1" :> 49) @@ ("2" :> 50) @@ ("3" :> 51) @@ ("4" :> 52) @@
  ("5" :> 53) @@ ("6" :> 54) @@ ("7" :> 55) @@ ("8" :> 56) @@ ("9" :> 57) @@
  ("A" :> 65) @@ ("S" :> 83) @@ ("T" :> 84) @@ ("Z" :> 90) @@
  ("a" :> 97) @@ ("c" :> 99) @@ ("d" :> 100) @@ ("e" :> 101) @@ ("g" :> 103) @@
  ("i" :> 105) @@ ("l" :> 108) @@ ("m" :> 109) @@ ("n" :> 110) @@ ("o" :> 111) @@
  ("p" :> 112) @@ ("r" :> 114) @@ ("s" :> 115) @@ ("t" :> 116) @@
  ("{" :> 123) @@ ("}" :> 125)

DigitChars == <<"0", "1", "2", "3", "4", "5", "6", "7", "8", "9">>
IsDigit(ch) == \E d \in 1..10 : DigitChars[d] = ch
DigitValue(ch) == (CHOOSE d \in 1..10 : DigitChars[d] = ch) - 1

Key_importanceScore ==
  <<"i", "m", "p", "o", "r", "t", "a", "n", "c", "e", "S", "c", "o", "r", "e">>
Key_lastSignalAt == <<"l", "a", "s", "t", "S", "i", "g", "n", "a", "l", "A", "t">>
Key_id == <<"i", "d">>

\* a non-negative integer in decimal
RECURSIVE NatToText(_)
NatToText(n) ==
  IF n < 10 THEN <<DigitChars[n + 1]>>
  ELSE NatToText(n \div 10) \o <<DigitChars[(n % 10) + 1]>>

\* JSON.stringify of an integer number
NumberToText(n) == IF n < 0 THEN <<"-">> \o NatToText(-n) ELSE NatToText(n)

\* a field of toISOString: w digits, zero padded
RECURSIVE Padded(_, _)
Padded(n, w) == IF w = 0 THEN <<>> ELSE Padded(n \div 10, w - 1) \o <<DigitChars[(n % 10) + 1]>>

\* faulty variant: the text of a timestamp keeps whole seconds only
IsoMillis_Mutant(t) == 0

\* the milliseconds field of toISOString
IsoMillis(t) == t % 1000

\* Date.prototype.toISOString: YYYY-MM-DDTHH:mm:ss.sssZ
toISOString(t) ==
  <<"2", "0", "2", "6", "-", "0", "1", "-">> \o Padded((t \div DAY_MS) + 1, 2)
    \o <<"T">> \o Padded((t % DAY_MS) \div HOUR_MS, 2)
    \o <<":">> \o Padded((t % HOUR_MS) \div 60000, 2)
    \o <<":">> \o Padded((t % 60000) \div 1000, 2)
    \o <<".">> \o Padded(IsoMillis(t), 3) \o <<"Z">>

RECURSIVE TextToNat(_)
TextToNat(txt) ==
  IF txt = <<>> THEN 0
  ELSE TextToNat(SubSeq(txt, 1, Len(txt) - 1)) * 10 + DigitValue(txt[Len(txt)])

\* new Date(isoString).getTime(); -1 for a text that is no such timestamp
DateOf(txt) ==
  IF /\ Len(txt) = 24
     /\ SubSeq(txt, 1, 8) = <<"2", "0", "2", "6", "-", "0", "1", "-">>
     /\ txt[11] = "T" /\ txt[14] = ":" /\ txt[17] = ":" /\ txt[20] = "." /\ txt[24] = "Z"
     /\ \A i \in {9, 10, 12, 13, 15, 16, 18, 19, 21, 22, 23} : IsDigit(txt[i])
  THEN (TextToNat(SubSeq(txt, 9, 10)) - 1) * DAY_MS
         + TextToNat(SubSeq(txt, 12, 13)) * HOUR_MS
         + TextToNat(SubSeq(txt, 15, 16)) * 60000
         + TextToNat(SubSeq(txt, 18, 19)) * 1000
         + TextToNat(SubSeq(txt, 21, 23))
  ELSE -1

Quoted(txt) == <<"\"">> \o txt \o <<"\"">>

\* JSON.stringify({ importanceScore, lastSignalAt, id }); ids are written in
\* digits
StringifyCursor(score, iso, id) ==
  <<"{">> \o Quoted(Key_importanceScore) \o <<":">> \o NumberToText(score)
    \o <<",">> \o Quoted(Key_lastSignalAt) \o <<":">> \o Quoted(iso)
    \o <<",">> \o Quoted(Key_id) \o <<":">> \o Quoted(NatToText(id)) \o <<"}">>

\* Buffer.from(text): the bytes; buffer.toString(): the text
BytesOf(txt) == [i \in DOMAIN txt |-> Ascii[txt[i]]]
CharCodes == {Ascii[ch] : ch \in DOMAIN Ascii}
CharOf == [b \in CharCodes |-> CHOOSE ch \in DOMAIN Ascii : Ascii[ch] = b]
TextOf(bytes) == [i \in DOMAIN bytes |-> CharOf[bytes[i]]]
IsText(bytes) == \A i \in DOMAIN bytes : bytes[i] \in CharCodes

\* toString('base64url'): three bytes become four six-bit digits, no padding;
\* a base64url text is kept as the sequence of its digits' values, 0 to 63
RECURSIVE Base64Url(_)
Base64Url(b) ==
  IF Len(b) = 0 THEN <<>>
  ELSE IF Len(b) = 1 THEN <<b[1] \div 4, (b[1] % 4) * 16>>
  ELSE IF Len(b) = 2
  THEN <<b[1] \div 4, (b[1] % 4) * 16 + b[2] \div 16, (b[2] % 16) * 4>>
  ELSE <<b[1] \div 4, (b[1] % 4) * 16 + b[2] \div 16,
         (b[2] % 16) * 4 + b[3] \div 64, b[3] % 64>>
         \o Base64Url(SubSeq(b, 4, Len(b)))

\* Buffer.from(text, 'base64url')
RECURSIVE FromBase64Url(_)
FromBase64Url(d) ==
  IF Len(d) < 2 THEN <<>>
  ELSE IF Len(d) = 2 THEN <<d[1] * 4 + d[2] \div 16>>
  ELSE IF Len(d) = 3
  THEN <<d[1] * 4 + d[2] \div 16, (d[2] % 16) * 16 + d[3] \div 4>>
  ELSE <<d[1] * 4 + d[2] \div 16, (d[2] % 16) * 16 + d[3] \div 4,
         (d[3] % 4) * 64 + d[4]>>
         \o FromBase64Url(SubSeq(d, 5, Len(d)))

\* encodeCursor(cluster)
encodeCursor(row) ==
  Base64Url(BytesOf(StringifyCursor(row.importanceScore,
                                    toISOString(row.lastSignalAt), row.id)))

\* the index of the first `ch` in txt at or after i, or 0
RECURSIVE IndexOf(_, _, _)
IndexOf(txt, ch, i) ==
  IF i > Len(txt) THEN 0
  ELSE IF txt[i] = ch THEN i ELSE IndexOf(txt, ch, i + 1)

\* the index after the JSON number that starts at i
RECURSIVE NumberEnd(_, _)
NumberEnd(txt, i) ==
  IF i <= Len(txt) /\ (IsDigit(txt[i]) \/ txt[i] = "-") THEN NumberEnd(txt, i + 1) ELSE i

NumberOf(txt) ==
  IF txt # <<>> /\ txt[1] = "-" THEN 0 - TextToNat(Tail(txt)) ELSE TextToNat(txt)

\* JSON.parse of an object whose values are numbers and strings: the members
\* from index i on, as a set of <<key, value>>, and whether the text was
\* well formed
Malformed == [ok |-> FALSE, members |-> {}]

RECURSIVE ParseMembers(_, _)
ParseMembers(txt, i) ==
  IF i > Len(txt) \/ txt[i] # "\"" THEN Malformed
  ELSE LET k == IndexOf(txt, "\"", i + 1)
           v == k + 2
       IN IF k = 0 \/ v > Len(txt) \/ txt[k + 1] # ":" THEN Malformed
          ELSE LET isString == txt[v] = "\""
                   e == IF isString THEN IndexOf(txt, "\"", v + 1) + 1
                        ELSE NumberEnd(txt, v)
                   value == IF isString THEN SubSeq(txt, v + 1, e - 2)
                            ELSE NumberOf(SubSeq(txt, v, e - 1))
                   member == <<SubSeq(txt, i + 1, k - 1), value>>
                   rest == ParseMembers(txt, e + 1)
               IN IF e <= v \/ e > Len(txt) THEN Malformed
                  ELSE IF txt[e] = "}" /\ e = Len(txt)
                  THEN [ok |-> TRUE, members |-> {member}]
                  ELSE IF txt[e] = ","
                  THEN [ok |-> rest.ok, members |-> {member} \cup rest.members]
                  ELSE Malformed

JsonParse(txt) ==
  IF txt # <<>> /\ txt[1] = "{" THEN ParseMembers(txt, 2) ELSE Malformed

Member(obj, key) == (CHOOSE m \in obj.members : m[1] = key)[2]

\* what decodeCursor returns for a text it cannot parse
NullCursor == [valid |-> FALSE]

\* decodeCursor, from the parsed object on
CursorOf(obj) ==
  IF ~obj.ok
     \/ \E key \in {Key_importanceScore, Key_lastSignalAt, Key_id} :
          \A m \in obj.members : m[1] # key
  THEN NullCursor
  ELSE [valid |-> TRUE,
        importanceScore |-> Member(obj, Key_importanceScore),
        lastSignalAt |-> Member(obj, Key_lastSignalAt),
        id |-> TextToNat(Member(obj, Key_id))]

\* JSON.parse(buffer.toString())
ParsedBytes(bytes) == IF IsText(bytes) THEN JsonParse(TextOf(bytes)) ELSE Malformed

\* decodeCursor(cursor): the three members as parsed, or null
decodeCursor(cursor) == CursorOf(ParsedBytes(FromBase64Url(cursor)))

\* faulty variant: the last branch of the keyset predicate lets the cursor's own row in
CursorWhere_Mutant(cursor, row) ==
  \/ row.importanceScore < cursor.importanceScore
  \/ /\ row.importanceScore = cursor.importanceScore
     /\ row.lastSignalAt < DateOf(cursor.lastSignalAt)
  \/ /\ row.importanceScore = cursor.importanceScore
     /\ row.lastSignalAt = DateOf(cursor.lastSignalAt)
     /\ row.id <= cursor.id

\* buildCursorWhere(cursor), applied to a row
CursorWhere(cursor, row) ==
  \/ row.importanceScore < cursor.importanceScore
  \/ /\ row.importanceScore = cursor.importanceScore
     /\ row.lastSignalAt < DateOf(cursor.lastSignalAt)
  \/ /\ row.importanceScore = cursor.importanceScore
     /\ row.lastSignalAt = DateOf(cursor.lastSignalAt)
     /\ row.id < cursor.id

\* the rows a cursor is made of: scores, instants and ids at and around the
\* places where their texts change length or a field carries over
CursorScores == {0 - 12000, -1, 0, 9, 10, 7829, 120500}
CursorInstants == {0, 1, 999, 1000, 59999, 3599999, 86399999, 86400000,
                   777600000 + 45296789}
CursorIds == {1, 10, 305}

InitCodec ==
  /\ rawSignals = <<>> /\ signals = <<>> /\ clusters = <<>> /\ runs = <<>>
  /\ now = 0
  /\ InitPipeline
  /\ walk = NoWalk
  /\ norm = NoNorm
  /\ post = NoPost
  /\ calc = NoCalc
  /\ \E sc \in CursorScores, t \in CursorInstants, id \in CursorIds :
       codec = [phase |-> "row",
                row |-> [importanceScore |-> sc, lastSignalAt |-> t, id |-> id]]

\* GET makes nextCursor of the last row it returns
EncodeCursor ==
  /\ codec.phase = "row"
  /\ codec' = [phase |-> "encoded", row |-> codec.row, cursor |-> encodeCursor(codec.row)]
  /\ UNCHANGED <<rawSignals, signals, clusters, runs, locks, cyc, started, now,
                 hist, walk, norm, post, calc>>

\* the next GET decodes the cursor it is given
DecodeCursor ==
  /\ codec.phase = "encoded"
  /\ codec' = [phase |-> "decoded", row |-> codec.row, cursor |-> codec.cursor,
               decoded |-> decodeCursor(codec.cursor)]
  /\ UNCHANGED <<rawSignals, signals, clusters, runs, locks, cyc, started, now,
                 hist, walk, norm, post, calc>>

NextCodec == EncodeCursor \/ DecodeCursor

\* cursors of cluster rows, encoded and decoded again
SpecCodec == InitCodec /\ [][NextCodec]_vars

\* ------------------------------------------------------------ GET /clusters
WINDOW_HOURS == 7 * 24     \* getWindowStart of the default window, '7d'

\* what the query reads of a StoryCluster row
FeedRow(c) ==
  [importanceScore |-> clusters[c].importanceScore,
   lastSignalAt |-> clusters[c].lastSignalAt * HOUR_MS, id |-> c]

\* where: status ACTIVE and lastSignalAt >= getWindowStart(window)
MatchesFilter(c) ==
  clusters[c].status = "ACTIVE" /\ clusters[c].lastSignalAt >= now - WINDOW_HOURS

\* faulty variant: rows equal in score and lastSignalAt come by ascending id
SortsBefore_Mutant(a, b) ==
  \/ a.importanceScore > b.importanceScore
  \/ a.importanceScore = b.importanceScore /\ a.lastSignalAt > b.lastSignalAt
  \/ /\ a.importanceScore = b.importanceScore /\ a.lastSignalAt = b.lastSignalAt
     /\ a.id < b.id

\* orderBy importanceScore desc, lastSignalAt desc, id desc
SortsBefore(a, b) ==
  \/ a.importanceScore > b.importanceScore
  \/ a.importanceScore = b.importanceScore /\ a.lastSignalAt > b.lastSignalAt
  \/ /\ a.importanceScore = b.importanceScore /\ a.lastSignalAt = b.lastSignalAt
     /\ a.id > b.id

RECURSIVE FeedOrder(_)
FeedOrder(S) ==
  IF S = {} THEN <<>>
  ELSE LET first == CHOOSE c \in S : \A d \in S \ {c} : SortsBefore(FeedRow(c), FeedRow(d))
       IN <<first>> \o FeedOrder(S \ {first})

\* faulty variant: a full page is taken for a sign of more
HasMore_Mutant(found, limit) == Len(found) >= limit

\* const hasMore = clusters.length > limit
HasMore(found, limit) == Len(found) > limit

\* GET, from the rows found (limit + 1 of them at most) to the response
Response(found, limit) ==
  [clusters |-> [i \in 1..Min(Len(found), limit) |-> FeedRow(found[i])],
   hasMore |-> HasMore(found, limit),
   nextCursor |-> IF HasMore(found, limit)
                  THEN encodeCursor(FeedRow(found[limit])) ELSE <<>>]

\* GET, the query: findMany with the filter, the keyset predicate of a cursor
\* that decoded, the order, and take: limit + 1
Found(decodedCursor, limit) ==
  Take(FeedOrder({c \in DOMAIN clusters :
                    /\ MatchesFilter(c)
                    /\ decodedCursor.valid => CursorWhere(decodedCursor, FeedRow(c))}),
       limit + 1)

\* GET: the response to a request with this cursor text (empty: none) and limit
GET(cursor, limit) ==
  Response(Found(IF cursor # <<>> THEN decodeCursor(cursor) ELSE NullCursor, limit),
           limit)

\* A client's walk.  Besides the cursor it holds, the record keeps history:
\* the ids it was given, the last page with the row the page's cursor was made
\* of, the clusters that were waiting below the first page, how many clusters
\* there were when it began, whether a cluster of those has had its
\* importanceScore or lastSignalAt written since, and the clusters inserted
\* between its pages.
IdleWalk ==
  [phase |-> "idle", limit |-> 0, cursor |-> <<>>, hasMore |-> FALSE,
   seen |-> <<>>, pages |-> 0,
   lastPage |-> <<>>, cursorRow |-> <<>>, expected |-> {}, baseLen |-> 0,
   changed |-> FALSE, inserted |-> {}]

PageIds(res) == [i \in DOMAIN res.clusters |-> res.clusters[i].id]

\* the walk after the response to its first request
WalkBegun(res, limit) ==
  [IdleWalk EXCEPT
     !.phase = IF res.nextCursor = <<>> THEN "done" ELSE "walking",
     !.limit = limit, !.cursor = res.nextCursor, !.hasMore = res.hasMore,
     !.seen = PageIds(res), !.pages = 1, !.lastPage = res.clusters,
     !.expected = {c \in DOMAIN clusters : MatchesFilter(c)} \ Range(PageIds(res)),
     !.baseLen = Len(clusters)]

\* the walk after the response to a request with its cursor
WalkContinued(res) ==
  [walk EXCEPT
     !.phase = IF res.nextCursor = <<>> THEN "done" ELSE "walking",
     !.cursor = res.nextCursor, !.hasMore = res.hasMore,
     !.seen = @ \o PageIds(res), !.pages = @ + 1,
     !.lastPage = res.clusters,
     !.cursorRow = <<walk.lastPage[Len(walk.lastPage)]>>]

\* the client asks for the first page
ClientFirstPage ==
  /\ walk.phase = "idle"
  /\ \E limit \in 1..MaxLimit : walk' = WalkBegun(GET(<<>>, limit), limit)
  /\ UNCHANGED <<rawSignals, signals, clusters, runs, locks, cyc, started, now,
                 hist, codec, norm, post, calc>>

\* the client follows nextCursor
ClientNextPage ==
  /\ walk.phase = "walking"
  /\ walk' = WalkContinued(GET(walk.cursor, walk.limit))
  /\ UNCHANGED <<rawSignals, signals, clusters, runs, locks, cyc, started, now,
                 hist, codec, norm, post, calc>>

\* the feed is read over what an earlier cycle left, while one more cycle runs
InitFeed ==
  /\ now = 0
  /\ rawSignals = EarlierRawSignals
  /\ signals = EarlierSignals
  /\ clusters = RankedClusters(EarlierClusters, 1)
  /\ runs = <<"COMPLETED">>
  /\ locks = [f \in FPs |-> NULL]
  /\ cyc = [p \in Procs |-> IdleCyc]
  /\ started = MaxCycles - 1
  /\ hist = NoHist
  /\ walk = IdleWalk
  /\ codec = NoCodec
  /\ norm = NoNorm
  /\ post = NoPost
  /\ calc = NoCalc

NextFeed ==
  \/ NextOf(1)
  \/ Tick
  \/ ClientFirstPage
  \/ ClientNextPage

\* one client paging while a cycle runs and the clock advances
SpecFeed == InitFeed /\ [][NextFeed]_vars

\* ------------------------------------------------- upkeep of an aged database
\* The database a week and more after two stories were last reported: cluster 1
\* was demoted by an earlier sweep, cluster 2 has its last signal exactly
\* CLUSTER_ACTIVE_DAYS back and is still ACTIVE.  Cluster 1 has a fingerprint
\* that a newly fetched item can hash to (an item that states the old date).
\* The scores are those of the last ranking each row got.
AgedAt == 0 - ActiveWindowHours
DemotedAt == AgedAt - 1
AgedRawSignals ==
  <<[contentHash |-> EarlierHash, sourceDomain |-> ItemDomain(EarlierHash)],
    [contentHash |-> EarlierHash + 1, sourceDomain |-> ItemDomain(EarlierHash + 1)]>>
AgedSignals ==
  <<[rawSignalId |-> 1, ingestStatus |-> "ACCEPTED", clusterId |-> 1,
     fingerprint |-> 1, categories |-> {"PRODUCT_UPDATE"},
     publishedAt |-> NoDate, createdAt |-> DemotedAt],
    [rawSignalId |-> 2, ingestStatus |-> "ACCEPTED", clusterId |-> 2,
     fingerprint |-> EarlierFingerprint, categories |-> {"PRODUCT_UPDATE"},
     publishedAt |-> NoDate, createdAt |-> AgedAt]>>
AgedClusters ==
  <<[fingerprint |-> 1, status |-> "STALE",
     categories |-> {"PRODUCT_UPDATE"}, firstSeenAt |-> DemotedAt,
     lastSignalAt |-> DemotedAt, lastSeenAt |-> DemotedAt,
     importanceScore |-> 0, manualBoost |-> 0],
    [fingerprint |-> EarlierFingerprint, status |-> "ACTIVE",
     categories |-> {"PRODUCT_UPDATE"}, firstSeenAt |-> AgedAt,
     lastSignalAt |-> AgedAt, lastSeenAt |-> AgedAt,
     importanceScore |-> 0, manualBoost |-> 0]>>

InitAged ==
  /\ now = 0
  /\ rawSignals = AgedRawSignals
  /\ signals = AgedSignals
  /\ clusters = RankedClusters(RankedClusters(AgedClusters, 1), 2)
  /\ runs = <<"COMPLETED">>
  /\ locks = [f \in FPs |-> NULL]
  /\ cyc = [p \in Procs |-> IdleCyc]
  /\ started = MaxCycles - 1
  /\ hist = NoHist
  /\ walk = NoWalk
  /\ codec = NoCodec
  /\ norm = NoNorm
  /\ post = NoPost
  /\ calc = NoCalc

\* The operator's hand: manualBoost is a column no code of the service writes;
\* it is set in the database and honoured by the next ranking.
MaxBoost == 2       \* largest boost, up or down, the operator gives
MaxBoosted == 1     \* clusters the operator gives a boost to
ManualBoosts == (0 - MaxBoost) .. MaxBoost

SetManualBoost ==
  /\ Cardinality({c \in DOMAIN clusters : clusters[c].manualBoost # 0}) < MaxBoosted
  /\ \E c \in DOMAIN clusters, b \in ManualBoosts :
       /\ clusters[c].manualBoost # b
       /\ clusters' = [clusters EXCEPT ![c].manualBoost = b]
  /\ UNCHANGED <<rawSignals, signals, runs, locks, cyc, started, now, hist>>
  /\ Elsewhere

NextUpkeep ==
  \/ NextOf(1)
  \/ SetManualBoost
  \/ Tick

\* one more cycle over the aged database, with the operator at work
SpecUpkeep == InitAged /\ [][NextUpkeep]_vars

\* ------------------------------------------------- a cycle that can fail
\* The database can fail the coordinator itself: the updateMany of
\* sweepStaleClusters, the findMany of recomputeAllRankings or the update of
\* the run to COMPLETED rejects, and the error reaches the catch block of
\* runIngestCycle.  (fetchFromSources and processFetchedItems catch what their
\* feeds and items raise.)
CoordinatorThrows(p) ==
  /\ cyc[p].pc \in {"sweep", "recompute", "finish"}
  /\ cyc' = [cyc EXCEPT ![p] = [cyc[p] EXCEPT !.pc = "failed", !.threw = cyc[p].pc]]
  /\ UNCHANGED <<rawSignals, signals, clusters, runs, locks, started, now, hist>>
  /\ Elsewhere

\* the catch block: updateIngestRun(run.id, { status: 'FAILED', ... }), which
\* can be rejected as well, and the error is thrown on to the caller
MarkFailed(p) ==
  /\ cyc[p].pc = "failed"
  /\ \E dbOk \in BOOLEAN :
       runs' = IF dbOk THEN [runs EXCEPT ![cyc[p].run] = "FAILED"] ELSE runs
  /\ cyc' = [cyc EXCEPT ![p] = IdleCyc]
  /\ UNCHANGED <<rawSignals, signals, clusters, locks, started, now, hist>>
  /\ Elsewhere

NextFaults ==
  \/ NextOf(1)
  \/ CoordinatorThrows(1)
  \/ MarkFailed(1)

\* cycles one after another, over a database that can fail the coordinator
SpecFaults == Init /\ [][NextFaults]_vars

\* ------------------------------------------- one normalization, from inside
\* normalizeAndUpdateSignal for one stored signal: normalizeSignal, inside it
\* OpenAICompatibleProvider.normalize with its requests to the LLM API, then
\* updateSignalWithNormalization.  Texts are represented by their lengths,
\* confidences are in ten-thousandths.
MIN_TEXT_LENGTH == 50
MIN_CONFIDENCE_E4 == 6000        \* MIN_CONFIDENCE_THRESHOLD = 0.6
MaxRetriesCap == 3               \* largest maxRetries a provider is built with
NoNumber == -1

TitleLengths == {0, 10}                      \* 0: no title
RawTextLengths == {0, 37, 38, 39, 49, 50}    \* 0: no text
Confidences == {0, 5949, 5999, 6000, 10000}

\* textParts.join('\n\n'): the separator is there when both parts are
JoinedLength(title, rawText) ==
  title + rawText + (IF title > 0 /\ rawText > 0 THEN 2 ELSE 0)

\* faulty variant: a text of exactly the minimum length is turned away too
TooShort_Mutant(len) == len <= MIN_TEXT_LENGTH

\* text.length < MIN_TEXT_LENGTH
TooShort(len) == len < MIN_TEXT_LENGTH

\* faulty variant: a confidence of exactly the threshold is turned away too
LowConfidence_Mutant(c) == c <= MIN_CONFIDENCE_E4

\* confidence < MIN_CONFIDENCE_THRESHOLD
LowConfidence(c) == c < MIN_CONFIDENCE_E4

\* confidence.toFixed(2), in hundredths
ToFixed2(c) == (c + 50) \div 100

\* What one request to the API can come back with: a body that parses and
\* passes NormalizeResultSchema (with its confidence), one that parses but
\* fails the schema, one that is not JSON, HTTP 429, or any other failure
\* (another status, a network error, the request timeout).
NoResponse == [kind |-> "none", confidence |-> NoNumber]
Responses ==
  [kind : {"valid"}, confidence : Confidences]
    \cup [kind : {"invalid", "badjson", "ratelimit", "error"}, confidence : {NoNumber}]

\* faulty variant: a body that is not JSON counts as a validation failure
ErrorOf_Mutant(kind) ==
  CASE kind = "ratelimit" -> "LLMRateLimitError"
    [] kind \in {"invalid", "badjson"} -> "LLMValidationError"
    [] OTHER -> "ApiError"

\* the error a request raises for what came back
ErrorOf(kind) ==
  CASE kind = "ratelimit" -> "LLMRateLimitError"
    [] kind = "invalid" -> "LLMValidationError"
    [] kind = "badjson" -> "InvalidJson"
    [] OTHER -> "ApiError"

\* ingestReason: what the message says
NoReason == [kind |-> "none", number |-> NoNumber, error |-> "none"]
TextTooShort(len) == [kind |-> "tooShort", number |-> len, error |-> "none"]
LowRelevance(c) == [kind |-> "lowRelevance", number |-> ToFixed2(c), error |-> "none"]
LLMErrorReason(err) == [kind |-> "llmError", number |-> NoNumber, error |-> err]

\* NormalizeOutput; the four llm fields travel together
NoOutput ==
  [success |-> FALSE, ingestStatus |-> "PENDING", ingestReason |-> NoReason,
   confidence |-> NoNumber, llm |-> "none"]
RejectedShort(len) ==
  [success |-> FALSE, ingestStatus |-> "REJECTED", ingestReason |-> TextTooShort(len),
   confidence |-> NoNumber, llm |-> "none"]
RejectedLow(c) ==
  [success |-> FALSE, ingestStatus |-> "REJECTED", ingestReason |-> LowRelevance(c),
   confidence |-> c, llm |-> "response"]
Accepted(c) ==
  [success |-> TRUE, ingestStatus |-> "ACCEPTED", ingestReason |-> NoReason,
   confidence |-> c, llm |-> "response"]
FailedOutput(err) ==
  [success |-> FALSE, ingestStatus |-> "FAILED", ingestReason |-> LLMErrorReason(err),
   confidence |-> NoNumber, llm |-> "none"]

\* the Signal row's columns that normalization writes, as storeRawSignal left them
PendingRow ==
  [ingestStatus |-> "PENDING", ingestReason |-> NoReason,
   confidence |-> NoNumber, llm |-> "none"]

NewCall(title, rawText, maxRetries) ==
  [pc |-> "start", title |-> title, rawText |-> rawText, maxRetries |-> maxRetries,
   attempt |-> 0, lastError |-> "none", response |-> NoResponse,
   output |-> NoOutput, row |-> PendingRow,
   \* history: requests made, how many of them with the fallback prompt,
   \* sleeps, what the last request came back with and which prompt it carried
   requests |-> 0, fallbacks |-> 0, waits |-> 0, last |-> "none", lastOn |-> "none"]

InitNormalize ==
  /\ rawSignals = <<>> /\ signals = <<>> /\ clusters = <<>> /\ runs = <<>>
  /\ now = 0
  /\ InitPipeline
  /\ walk = NoWalk
  /\ codec = NoCodec
  /\ post = NoPost
  /\ calc = NoCalc
  /\ \E title \in TitleLengths, rawText \in RawTextLengths, maxRetries \in 1..MaxRetriesCap :
       norm = NewCall(title, rawText, maxRetries)

Outside ==
  UNCHANGED <<rawSignals, signals, clusters, runs, locks, cyc, started, now, hist,
              walk, codec, post, calc>>

\* normalizeSignal's catch: the error becomes a FAILED output
Thrown(n, err) == [n EXCEPT !.pc = "update", !.output = FailedOutput(err)]

\* normalize returns the validated response to normalizeSignal
Returned(n, resp) == [n EXCEPT !.pc = "platforms", !.response = resp]

\* callApi was called with the given prompt and came back
Requested(n, resp, prompt) ==
  [n EXCEPT !.requests = @ + 1, !.last = resp.kind, !.lastOn = prompt,
            !.fallbacks = IF prompt = "fallback" THEN @ + 1 ELSE @,
            !.lastError = IF prompt = "fallback" \/ resp.kind = "valid"
                          THEN @ ELSE ErrorOf(resp.kind)]

\* normalizeSignal up to the call of the provider
NormalizeSignalBegin ==
  /\ norm.pc = "start"
  /\ norm' = IF TooShort(JoinedLength(norm.title, norm.rawText))
             THEN [norm EXCEPT !.pc = "update",
                     !.output = RejectedShort(JoinedLength(norm.title, norm.rawText))]
             ELSE [norm EXCEPT !.pc = "attempt"]
  /\ Outside

\* faulty variant: the fallback prompt is tried after the last attempt as well
FallbackAllowed_Mutant(attempt, maxRetries) == TRUE

\* attempt < this.config.maxRetries - 1
FallbackAllowed(attempt, maxRetries) == attempt < maxRetries - 1

\* the loop body of normalize: the request with the normal prompt, and what
\* the catch block does with its error
AttemptRequest ==
  /\ norm.pc = "attempt"
  /\ \E resp \in Responses :
       norm' =
         CASE resp.kind = "valid" ->
                Returned(Requested(norm, resp, "prompt"), resp)
           [] resp.kind # "valid" /\ ErrorOf(resp.kind) = "LLMRateLimitError" ->
                [Requested(norm, resp, "prompt") EXCEPT !.pc = "sleep"]
           [] resp.kind # "valid" /\ ErrorOf(resp.kind) = "LLMValidationError"
                /\ FallbackAllowed(norm.attempt, norm.maxRetries) ->
                [Requested(norm, resp, "prompt") EXCEPT !.pc = "fallback"]
           [] OTHER ->
                Thrown(Requested(norm, resp, "prompt"), ErrorOf(resp.kind))
  /\ Outside

\* the loop goes round: attempt++, and past the last attempt throw lastError
NextAttempt(n) ==
  IF n.attempt + 1 < n.maxRetries
  THEN [n EXCEPT !.pc = "attempt", !.attempt = @ + 1]
  ELSE Thrown([n EXCEPT !.attempt = @ + 1], n.lastError)

\* await this.sleep(waitTime); continue
Sleep ==
  /\ norm.pc = "sleep"
  /\ norm' = NextAttempt([norm EXCEPT !.waits = @ + 1])
  /\ Outside

\* faulty variant: after a failed fallback the loop goes on to its next attempt
AfterFailedFallback_Mutant(n) == NextAttempt(n)

\* after a failed fallback the validation error is thrown
AfterFailedFallback(n) == Thrown(n, n.lastError)

\* the request with the fallback prompt; whatever goes wrong with it is
\* swallowed by the inner catch
FallbackRequest ==
  /\ norm.pc = "fallback"
  /\ \E resp \in Responses :
       norm' = IF resp.kind = "valid"
               THEN Returned(Requested(norm, resp, "fallback"), resp)
               ELSE AfterFailedFallback(Requested(norm, resp, "fallback"))
  /\ Outside

\* validatePlatforms reads the Platform table; an error it raises is caught
\* like one of the provider
ValidatePlatforms ==
  /\ norm.pc = "platforms"
  /\ \E dbOk \in BOOLEAN :
       norm' = IF dbOk THEN [norm EXCEPT !.pc = "decide"]
               ELSE Thrown(norm, "DatabaseError")
  /\ Outside

\* the confidence threshold (fetchOgImage, for an accepted signal, cannot fail
\* the call: its error is caught on the spot)
Decide ==
  /\ norm.pc = "decide"
  /\ norm' = [norm EXCEPT !.pc = "update",
                !.output = IF LowConfidence(norm.response.confidence)
                           THEN RejectedLow(norm.response.confidence)
                           ELSE Accepted(norm.response.confidence)]
  /\ Outside

\* updateSignalWithNormalization: what it writes to the row
UpdatedRow(row, output) ==
  IF output.success
  THEN [row EXCEPT !.ingestStatus = output.ingestStatus,
                   !.confidence = output.confidence, !.llm = output.llm]
  ELSE [row EXCEPT !.ingestStatus = output.ingestStatus,
                   !.ingestReason = output.ingestReason]

UpdateSignal ==
  /\ norm.pc = "update"
  /\ norm' = [norm EXCEPT !.pc = "done", !.row = UpdatedRow(@, norm.output)]
  /\ Outside

NextNormalize ==
  \/ NormalizeSignalBegin
  \/ AttemptRequest
  \/ Sleep
  \/ FallbackRequest
  \/ ValidatePlatforms
  \/ Decide
  \/ UpdateSignal

\* one call, for every text, every configuration and every answer of the API
SpecNormalize == InitNormalize /\ [][NextNormalize]_vars

\* The event loop resumes a call whenever what it awaits has settled: each
\* request settles (the fetch is aborted after the configured timeout), each
\* sleep is finite, each database call returns or raises.
SpecNormalizeLive == SpecNormalize /\ WF_vars(NextNormalize)

\* ------------------------------------------------------------- POST /ingest
\* Header values, the query parameter and the secrets are texts (sequences of
\* characters).  request.headers.get and searchParams.get give null for what
\* the request does not carry, process.env gives undefined for a variable that
\* is not set; null, undefined and the empty text are three different values.
Null == <<"null">>
Undefined == <<"undefined">>

BearerPrefix == <<"B", "e", "a", "r", "e", "r", " ">>
KeyA == <<"k", "A">>        \* the ingest secret, where one is set
KeyB == <<"k", "B">>        \* the scheduler's secret, where one is set
Wrong == <<"k", "C">>

\* what the environment can hold
IngestSecrets == {Undefined, <<>>, KeyA}
CronSecrets == {Undefined, KeyB}

\* what a request can carry: as Authorization a bearer token (any of the
\* texts, the empty one too), the secret under another scheme, with the scheme
\* in lower case, or bare; in the other two channels any of the texts
SentTexts == {<<>>, KeyA, KeyB, Wrong}
AuthorizationHeaders ==
  {Null, KeyA, <<"B", "a", "s", "i", "c", " ">> \o KeyA,
   <<"b", "e", "a", "r", "e", "r", " ">> \o KeyA}
    \cup {BearerPrefix \o t : t \in SentTexts}
Requests ==
  [authorization : AuthorizationHeaders,
   xCronSecret : {Null} \cup SentTexts,
   secret : {Null} \cup SentTexts]

\* String.prototype.startsWith, String.prototype.slice(n)
StartsWith(txt, prefix) ==
  Len(txt) >= Len(prefix) /\ SubSeq(txt, 1, Len(prefix)) = prefix
Slice(txt, n) == SubSeq(txt, n + 1, Len(txt))

\* faulty variant: the comparison is made whether or not the secret is set
Truthy_Mutant(txt) == TRUE

\* `secret && ...`: the variable is set and not empty
Truthy(txt) == txt # Undefined /\ txt # Null /\ txt # <<>>

\* faulty variant: any Authorization header is taken for a bearer token
IsBearer_Mutant(header) == header # Null

\* authHeader?.startsWith('Bearer ')
IsBearer(header) == header # Null /\ StartsWith(header, BearerPrefix)

\* POST, the authorization: TRUE where the handler goes on to the cycle,
\* FALSE where it returns 401
Authorized(req, ingestSecret, cronSecret) ==
  IF IsBearer(req.authorization)
  THEN LET token == Slice(req.authorization, 7)
       IN \/ Truthy(ingestSecret) /\ token = ingestSecret
          \/ Truthy(cronSecret) /\ token = cronSecret
  ELSE IF Truthy(ingestSecret) /\ req.xCronSecret = ingestSecret
  THEN TRUE
  ELSE ~(~Truthy(ingestSecret) \/ req.secret # ingestSecret)

InitIngest ==
  /\ now = 0
  /\ rawSignals = <<>> /\ signals = <<>> /\ clusters = <<>> /\ runs = <<>>
  /\ InitPipeline
  /\ walk = NoWalk
  /\ codec = NoCodec
  /\ norm = NoNorm
  /\ calc = NoCalc
  /\ \E req \in Requests, ingestSecret \in IngestSecrets, cronSecret \in CronSecrets :
       post = [phase |-> "received", req |-> req, INGEST_SECRET |-> ingestSecret,
               CRON_SECRET |-> cronSecret, status |-> 0]

Unposted ==
  UNCHANGED <<rawSignals, signals, clusters, runs, locks, cyc, started, now, hist,
              walk, codec, norm, calc>>

\* POST up to the call of runIngestCycle
PostAuthorize ==
  /\ post.phase = "received"
  /\ post' = IF Authorized(post.req, post.INGEST_SECRET, post.CRON_SECRET)
             THEN [post EXCEPT !.phase = "authorized"]
             ELSE [post EXCEPT !.phase = "responded", !.status = 401]
  /\ Unposted

\* await runIngestCycle(): the cycle begins.  What the request carried plays
\* no part from here on and is dropped from the record.
PostCycleBegins ==
  /\ post.phase = "authorized"
  /\ BeginCycle(1)
  /\ post' = [phase |-> "running"]
  /\ UNCHANGED <<walk, codec, norm, calc>>

\* the cycle goes on; the database can fail it
PostCycleStep ==
  /\ post.phase = "running"
  /\ StepOf(1) \/ CoordinatorThrows(1) \/ MarkFailed(1)

\* runIngestCycle has returned its result (200) or thrown (500)
PostRespond ==
  /\ post.phase = "running"
  /\ cyc[1].pc = "idle"
  /\ post' = [phase |-> "responded",
              status |-> IF runs[Len(runs)] = "COMPLETED" THEN 200 ELSE 500]
  /\ Unposted

NextIngest ==
  \/ PostAuthorize
  \/ PostCycleBegins
  \/ PostCycleStep
  \/ PostRespond

\* one request, from its arrival to its response
SpecIngest == InitIngest /\ [][NextIngest]_vars

\* ---------------------------------------------- feeds longer than the cap
\* The enabled feeds hold one item more than DIRECT_MODE_MAX_ITEMS and return
\* the same items, in the same order, every time they are fetched.
SteadyFeed == [i \in 1..(DIRECT_MODE_MAX_ITEMS + 1) |-> i]

InitSteady ==
  /\ now = 0
  /\ rawSignals = <<>> /\ signals = <<>> /\ clusters = <<>> /\ runs = <<>>
  /\ InitPipeline
  /\ walk = NoWalk
  /\ codec = NoCodec
  /\ norm = NoNorm
  /\ post = NoPost
  /\ calc = NoCalc

SteadyCycle(p) == CycleOver(p, SteadyFeed) /\ Elsewhere

NextSteady ==
  \/ SteadyCycle(1)
  \/ StepOf(1)

\* cycles one after another over the same feed contents
SpecSteady == InitSteady /\ [][NextSteady]_vars

\* The scheduler calls for the next cycle when one has ended, and a cycle that
\* has begun goes on: every await of it settles.
SpecSteadyLive == SpecSteady /\ WF_vars(NextSteady)

\* ------------------------------------------- one call of computeImportanceScore
\* The call is looked at on a cluster built for it, as the ranking tests build
\* theirs: signals of so many distinct domains, some more signals of a domain
\* already there, and any set of categories.
Category == {"PRODUCT_UPDATE", "MONETIZATION_CHANGE", "SAFETY_YOUTH_RISK",
             "NSFW_CONTENT_POLICY", "CULTURAL_TREND", "REGULATORY_LEGAL",
             "BUSINESS_FUNDING"}
MaxDomains == 8
MaxRepeats == 2
ScoredFingerprint == NumFingerprints + 1

\* the signals of the cluster: one of each of `distinct` domains, then `repeats`
\* more of the first domain
ScoredRawSignals(distinct, repeats) ==
  [i \in 1..(distinct + repeats) |->
     [contentHash |-> i, sourceDomain |-> IF i <= distinct THEN i ELSE 1]]

ScoredSignals(distinct, repeats, categories) ==
  [i \in 1..(distinct + repeats) |->
     [rawSignalId |-> i, ingestStatus |-> "ACCEPTED", clusterId |-> 1,
      fingerprint |-> ScoredFingerprint, categories |-> categories,
      publishedAt |-> NoDate, createdAt |-> 0]]

ScoredCluster(categories) ==
  [fingerprint |-> ScoredFingerprint, status |-> "ACTIVE",
   categories |-> categories, firstSeenAt |-> 0, lastSignalAt |-> 0,
   lastSeenAt |-> 0, importanceScore |-> 0, manualBoost |-> 0]

InitScore ==
  /\ now = 0
  /\ \E distinct \in 0..MaxDomains, repeats \in 0..MaxRepeats, categories \in SUBSET Category :
       /\ rawSignals = ScoredRawSignals(distinct, repeats)
       /\ signals = ScoredSignals(distinct, repeats, categories)
       /\ clusters = <<ScoredCluster(categories)>>
  /\ runs = <<>>
  /\ InitPipeline
  /\ walk = NoWalk
  /\ codec = NoCodec
  /\ norm = NoNorm
  /\ post = NoPost
  /\ calc = NoCalc

\* computeImportanceScore(cluster) returns { score, scoreMillis, breakdown }
ComputeScore ==
  /\ calc = NoCalc
  /\ calc' = [phase |-> "returned",
              breakdown |-> ScoreBreakdown(clusters, 1),
              scoreMillis |-> computeImportanceScore(clusters, 1)]
  /\ UNCHANGED <<rawSignals, signals, clusters, runs, locks, cyc, started, now, hist,
                 walk, codec, norm, post>>

NextScore == ComputeScore

SpecScore == InitScore /\ [][NextScore]_vars

\* ------------------------------------------------- NormalizeResultSchema
\* JSON values as the schema sees them: the type, and of a string its length
\* (where a length is tested) or its text (where it is compared); a key an
\* object lacks reads as undefined.
JUndefined == [t |-> "undefined"]
JNull == [t |-> "null"]
JText(value) == [t |-> "string", value |-> value]
JStringOf(length) == [t |-> "string", length |-> length]
JNumber(e2) == [t |-> "number", e2 |-> e2]     \* hundredths
JArray(items) == [t |-> "array", items |-> items]
JEntities(platforms, companies, people, topics) ==
  [t |-> "object", platforms |-> platforms, companies |-> companies,
   people |-> people, topics |-> topics]
JResult(summary, suggestedHeadline, categories, entities, confidence) ==
  [t |-> "object", summary |-> summary, suggestedHeadline |-> suggestedHeadline,
   categories |-> categories, entities |-> entities, confidence |-> confidence]

\* faulty variant: a string of exactly the maximal length is refused
StringMax_Mutant(v, max) == v.t = "string" /\ v.length < max

\* z.string().max(max)
StringMax(v, max) == v.t = "string" /\ v.length <= max

\* z.string()
IsString(v) == v.t = "string"

\* z.nativeEnum(Category)
IsCategory(v) == v.t = "string" /\ v.value \in Category

\* z.number().min(min).max(max)
NumberBetween(v, min, max) == v.t = "number" /\ min <= v.e2 /\ v.e2 <= max

\* z.array(element).min(min)
ArrayOf(v, element(_), min) ==
  v.t = "array" /\ Len(v.items) >= min /\ \A i \in DOMAIN v.items : element(v.items[i])

\* .default([])
OrEmpty(v) == IF v.t = "undefined" THEN JArray(<<>>) ELSE v

EntityLists == {"platforms", "companies", "people", "topics"}

EntitiesSchema(v) ==
  v.t = "object" /\ \A list \in EntityLists : ArrayOf(OrEmpty(v[list]), IsString, 0)

NormalizeResultSchema(v) ==
  /\ v.t = "object"
  /\ StringMax(v.summary, 500)
  /\ StringMax(v.suggestedHeadline, 120)
  /\ ArrayOf(v.categories, IsCategory, 1)
  /\ EntitiesSchema(v.entities)
  /\ NumberBetween(v.confidence, 0, 100)

\* the parsed value of an accepted result: the defaults filled in
ParsedData(v) ==
  [v EXCEPT !.entities = [list \in EntityLists \cup {"t"} |->
                            IF list = "t" THEN "object" ELSE OrEmpty(v.entities[list])]]

\* results an LLM may send, around every limit of the schema
SomeNames == JArray(<<JText("Replika"), JText("")>>)
SummaryValues == {JUndefined, JNumber(50), JStringOf(0), JStringOf(500), JStringOf(501)}
HeadlineValues == {JUndefined, JStringOf(0), JStringOf(120), JStringOf(121)}
CategoriesValues ==
  {JUndefined, JText("PRODUCT_UPDATE"), JArray(<<>>), JArray(<<JNumber(100)>>),
   JArray(<<JText("PRODUCT_UPDATE")>>),
   JArray(<<JText("REGULATORY_LEGAL"), JText("REGULATORY_LEGAL")>>),
   JArray(<<JText("PRODUCT_UPDATE"), JText("MONETIZATION_CHANGE"),
            JText("SAFETY_YOUTH_RISK"), JText("NSFW_CONTENT_POLICY"),
            JText("CULTURAL_TREND"), JText("REGULATORY_LEGAL"),
            JText("BUSINESS_FUNDING")>>),
   JArray(<<JText("PRODUCT_UPDATE"), JText("OTHER")>>)}
EntitiesValues ==
  {JUndefined, JNull, JArray(<<>>),
   JEntities(JUndefined, JUndefined, JUndefined, JUndefined),
   JEntities(SomeNames, JArray(<<>>), SomeNames, JUndefined),
   JEntities(SomeNames, SomeNames, SomeNames, SomeNames),
   JEntities(JArray(<<JText("Replika"), JNumber(100)>>), JUndefined, JUndefined, JUndefined),
   JEntities(JUndefined, JUndefined, JText("Eugenia Kuyda"), JUndefined),
   JEntities(JUndefined, JUndefined, JUndefined, JNull)}
ConfidenceValues ==
  {JUndefined, JText("0.5"), JNumber(-1), JNumber(0), JNumber(50), JNumber(100), JNumber(101)}

InitSchema ==
  /\ now = 0
  /\ rawSignals = <<>> /\ signals = <<>> /\ clusters = <<>> /\ runs = <<>>
  /\ InitPipeline
  /\ walk = NoWalk
  /\ codec = NoCodec
  /\ norm = NoNorm
  /\ post = NoPost
  /\ \E input \in {JNull} \cup
                  {JResult(s, h, c, e, n) : s \in SummaryValues, h \in HeadlineValues,
                                            c \in CategoriesValues, e \in EntitiesValues,
                                            n \in ConfidenceValues} :
       calc = [phase |-> "called", input |-> input]

\* NormalizeResultSchema.safeParse(input)
SafeParse ==
  /\ calc.phase = "called"
  /\ calc' = IF NormalizeResultSchema(calc.input)
             THEN [phase |-> "parsed", input |-> calc.input, success |-> TRUE,
                   data |-> ParsedData(calc.input)]
             ELSE [phase |-> "parsed", input |-> calc.input, success |-> FALSE,
                   data |-> JUndefined]
  /\ UNCHANGED <<rawSignals, signals, clusters, runs, locks, cyc, started, now, hist,
                 walk, codec, norm, post>>

NextSchema == SafeParse

SpecSchema == InitSchema /\ [][NextSchema]_vars

\* --------------------------------------------------- findSimilarCluster
\* Phase 2 looked at alone: the candidates that findCandidateClusters returned,
\* each with the TF-IDF cosine of its searchText against the signal's (in
\* hundredths) and its platforms, and the platforms of the signal.
CLUSTER_SIMILARITY_THRESHOLD_E2 == 40
MaxCandidates == 2
Cosines == {0, 25, 39, 40, 60}
PlatformSlugs == {"replika", "character-ai", "nomi"}

\* platformOverlapBonus: 0.2 per platform in common, at most 0.4
platformOverlapBonus(platforms1, platforms2) ==
  IF platforms1 = {} \/ platforms2 = {} THEN 0
  ELSE Min(Cardinality(platforms1 \cap platforms2) * 20, 40)

\* findMostSimilar: the index of the first candidate with the largest cosine
\* among those at or above the threshold, or NULL
findMostSimilar(similarities, threshold) ==
  IF \E i \in DOMAIN similarities : similarities[i] >= threshold
  THEN CHOOSE i \in DOMAIN similarities :
         /\ similarities[i] >= threshold
         /\ \A j \in DOMAIN similarities :
              /\ similarities[j] <= similarities[i]
              /\ j < i => similarities[j] < similarities[i]
  ELSE NULL

\* findSimilarCluster: the bonus is added to the match findMostSimilar returned
findSimilarCluster(signalPlatforms, candidates) ==
  IF candidates = <<>> THEN NULL
  ELSE IF findMostSimilar([i \in DOMAIN candidates |-> candidates[i].cosine],
                          CLUSTER_SIMILARITY_THRESHOLD_E2) = NULL
  THEN NULL
  ELSE IF candidates[findMostSimilar([i \in DOMAIN candidates |-> candidates[i].cosine],
                                     CLUSTER_SIMILARITY_THRESHOLD_E2)].cosine
          + platformOverlapBonus(signalPlatforms,
              candidates[findMostSimilar([i \in DOMAIN candidates |-> candidates[i].cosine],
                                         CLUSTER_SIMILARITY_THRESHOLD_E2)].platforms)
          < CLUSTER_SIMILARITY_THRESHOLD_E2
  THEN NULL
  ELSE findMostSimilar([i \in DOMAIN candidates |-> candidates[i].cosine],
                       CLUSTER_SIMILARITY_THRESHOLD_E2)

InitSimilar ==
  /\ now = 0
  /\ rawSignals = <<>> /\ signals = <<>> /\ clusters = <<>> /\ runs = <<>>
  /\ InitPipeline
  /\ walk = NoWalk
  /\ codec = NoCodec
  /\ norm = NoNorm
  /\ post = NoPost
  /\ \E signalPlatforms \in SUBSET PlatformSlugs,
        candidates \in SeqsUpTo([cosine : Cosines, platforms : SUBSET PlatformSlugs],
                                MaxCandidates) :
       calc = [phase |-> "called", signalPlatforms |-> signalPlatforms,
               candidates |-> candidates]

\* findSimilarCluster(signal, searchText, tx) returns the cluster or null
FindSimilar ==
  /\ calc.phase = "called"
  /\ calc' = [phase |-> "returned", signalPlatforms |-> calc.signalPlatforms,
              candidates |-> calc.candidates,
              cluster |-> findSimilarCluster(calc.signalPlatforms, calc.candidates)]
  /\ UNCHANGED <<rawSignals, signals, clusters, runs, locks, cyc, started, now, hist,
                 walk, codec, norm, post>>

NextSimilar == FindSimilar

SpecSimilar == InitSimilar /\ [][NextSimilar]_vars

\* ------------------------------------------- a walk over a database at rest
\* The clusters are as cycles and rankings at different times have left them:
\* up to MaxWalkClusters rows, some with equal scores and equal lastSignalAt,
\* some last reported before the window of the feed and demoted since.
MaxWalkClusters == 4
WalkNow == 200
WalkScores == {0, 7829}
WalkInstants == {WalkNow, WalkNow - 1, 0}

WalkCluster(i, score, lastSignalAt) ==
  [fingerprint |-> i, status |-> IF lastSignalAt < WalkNow - ActiveWindowHours
                                 THEN "STALE" ELSE "ACTIVE",
   categories |-> {"PRODUCT_UPDATE"}, firstSeenAt |-> 0, lastSignalAt |-> lastSignalAt,
   lastSeenAt |-> WalkNow, importanceScore |-> score, manualBoost |-> 0]

InitWalk ==
  /\ now = WalkNow
  /\ rawSignals = <<>> /\ signals = <<>> /\ runs = <<"COMPLETED">>
  /\ \E rows \in SeqsUpTo(WalkScores \X WalkInstants, MaxWalkClusters) :
       clusters = [i \in DOMAIN rows |-> WalkCluster(i, rows[i][1], rows[i][2])]
  /\ InitPipeline
  /\ walk = IdleWalk
  /\ codec = NoCodec
  /\ norm = NoNorm
  /\ post = NoPost
  /\ calc = NoCalc

NextWalk == ClientFirstPage \/ ClientNextPage

SpecWalk == InitWalk /\ [][NextWalk]_vars

\* ------------------------------------------------------- bounded text fields
\* A text is kept as its length and the positions (from 0) of its spaces,
\* which is all that truncation reads of it; null is a text of its own.
NullText == [isNull |-> TRUE, length |-> 0, spaces |-> {}]
TextWith(length, spaces) == [isNull |-> FALSE, length |-> length, spaces |-> spaces]
Ellipsis == TextWith(3, {})
UntitledStory == TextWith(14, {8})

MAX_RAW_TEXT_LENGTH == 20000
MAX_RAW_RESPONSE_LENGTH == 20000

\* LIMITS
LIMITS == [contextSummary |-> 1000, clusterHeadline |-> 200]

\* text.slice(0, end)
SliceTo(text, end) ==
  TextWith(Min(text.length, end), {p \in text.spaces : p < end})

\* a + b
Concat(a, b) == TextWith(a.length + b.length, a.spaces \cup {a.length + p : p \in b.spaces})

\* text.lastIndexOf(' ')
LastSpace(text) ==
  IF text.spaces = {} THEN -1 ELSE CHOOSE p \in text.spaces : \A q \in text.spaces : q <= p

\* truncateText(text, maxLength), of lib/utils: the text cut at maxLength, or
\* at its last space if that is in the last fifth, and the ellipsis after it
truncateText(text, maxLength) ==
  IF text.length <= maxLength THEN text
  ELSE IF LastSpace(SliceTo(text, maxLength)) * 10 > maxLength * 8
  THEN Concat(SliceTo(SliceTo(text, maxLength), LastSpace(SliceTo(text, maxLength))), Ellipsis)
  ELSE Concat(SliceTo(text, maxLength), Ellipsis)

\* truncateRequired(text, field), of lib/truncate
truncateRequired(text, field) ==
  IF text.length <= LIMITS[field] THEN text
  ELSE Concat(SliceTo(text, LIMITS[field] - 3), Ellipsis)

\* a || b
OrElse(a, b) == IF a.isNull \/ a.length = 0 THEN b ELSE a

\* what is written to each bounded column, from the text at hand
StoredText(column, text) ==
  CASE column = "rawText" ->
         IF text.isNull \/ text.length = 0 THEN NullText
         ELSE truncateText(text, MAX_RAW_TEXT_LENGTH)
    [] column = "llmRawResponse" -> truncateText(text, MAX_RAW_RESPONSE_LENGTH)
    [] column = "headline" ->
         truncateRequired(OrElse(text, UntitledStory), "clusterHeadline")
    [] column = "contextSummary" ->
         truncateRequired(OrElse(text, TextWith(0, {})), "contextSummary")

\* lengths at and around each limit, and spaces before, in and at the end of
\* the last fifth of each
TextLengths == {0, 14, 197, 199, 200, 201, 999, 1000, 1001, 19999, 20000, 20001, 20003, 40000}
SpacePositions == {8, 160, 198, 199, 900, 16000, 16001, 19998, 19999, 20000}
MaxSpaces == 2

BoundedColumns == {"rawText", "llmRawResponse", "headline", "contextSummary"}

\* rawText is of the feed item and the headline and summary of the Signal row,
\* all three nullable; the LLM's raw response is always a string
InitTruncate ==
  /\ now = 0
  /\ rawSignals = <<>> /\ signals = <<>> /\ clusters = <<>> /\ runs = <<>>
  /\ InitPipeline
  /\ walk = NoWalk
  /\ codec = NoCodec
  /\ norm = NoNorm
  /\ post = NoPost
  /\ \E column \in BoundedColumns, length \in TextLengths, spaces \in SUBSET SpacePositions :
       /\ Cardinality(spaces) <= MaxSpaces
       /\ \A p \in spaces : p < length
       /\ \E isNull \in BOOLEAN :
            /\ isNull => (length = 0 /\ column # "llmRawResponse")
            /\ calc = [phase |-> "called", column |-> column,
                       text |-> IF isNull THEN NullText ELSE TextWith(length, spaces)]

\* storeRawSignal, normalizeSignal and createNewCluster bound the text before
\* they write it
StoreText ==
  /\ calc.phase = "called"
  /\ calc' = [phase |-> "stored", column |-> calc.column, text |-> calc.text,
              stored |-> StoredText(calc.column, calc.text)]
  /\ UNCHANGED <<rawSignals, signals, clusters, runs, locks, cyc, started, now, hist,
                 walk, codec, norm, post>>

NextTruncate == StoreText

SpecTruncate == InitTruncate /\ [][NextTruncate]_vars

\* ------------------------------------------------------------- queue mode
\* QueuePipelineRunner.runIngestCycle, chosen by getPipelineRunner when
\* REDIS_URL is set: createIngestRun for a run of its own, then
\* `return directRunner.runIngestCycle()`, which creates its run in turn and
\* goes up to the store loop.  The promise is returned, not awaited, so the
\* catch block never sees its rejection and nothing updates the first run.
QueueCycleOver(p, allItems) ==
  /\ cyc[p].pc = "idle"
  /\ \A q \in Procs : q < p => Running(q)
  /\ started < MaxCycles
  /\ runs' = Append(Append(runs, "RUNNING"), "RUNNING")
  /\ started' = started + 1
  /\ Step(p, [IdleCyc EXCEPT !.pc = "store", !.run = Len(runs) + 2,
                !.items = FetchedItems(allItems, DIRECT_MODE_MAX_ITEMS),
                !.repeat = \A i \in DOMAIN FetchedItems(allItems, DIRECT_MODE_MAX_ITEMS) :
                              isSignalDuplicate(allItems[i])])
  /\ UNCHANGED <<rawSignals, signals, clusters, locks, now, hist>>

QueueStartCycle(p) ==
  /\ \E allItems \in SeqsUpTo(Hashes, MaxFeedLen) : QueueCycleOver(p, allItems)
  /\ Elsewhere

NextQueue ==
  \/ QueueStartCycle(1)
  \/ StepOf(1)

\* cycles one after another, of a service in queue mode
SpecQueue == Init /\ [][NextQueue]_vars

\* ------------------------------------------- the signals of a served cluster
\* the signals attached to cluster c
AttachedTo(c) == {s \in DOMAIN signals : signals[s].clusterId = c}

SIGNALS_PER_CLUSTER == 10

\* orderBy: { createdAt: 'desc' }
RECURSIVE NewestFirst(_)
NewestFirst(S) ==
  IF S = {} THEN <<>>
  ELSE LET s == CHOOSE s \in S : \A t \in S : signals[t].createdAt <= signals[s].createdAt
       IN <<s>> \o NewestFirst(S \ {s})

\* include: { signals: { take: 10, orderBy: { createdAt: 'desc' } } }
IncludedSignals(c) == Take(NewestFirst(AttachedTo(c)), SIGNALS_PER_CLUSTER)

\* returnedClusters.map: what the response says of the cluster's signals
ClusterView(c) ==
  [id |-> c, signals |-> IncludedSignals(c), signalCount |-> Len(IncludedSignals(c))]

\* A database that cycles have filled: two clusters, the first with some
\* signals and the second with the rest, each signal of an item of its own,
\* stored an hour after the one before.
MaxAttached == 12   \* most signals one cluster has: more than are included

StoredRawSignals(n) ==
  [r \in 1..n |-> [contentHash |-> r, sourceDomain |-> ItemDomain(EarlierHash)]]

StoredSignals(first, second) ==
  [s \in 1..(first + second) |->
     [rawSignalId |-> s, ingestStatus |-> "ACCEPTED",
      clusterId |-> IF s <= first THEN 1 ELSE 2,
      fingerprint |-> IF s <= first THEN 1 ELSE 2, categories |-> {"PRODUCT_UPDATE"},
      publishedAt |-> NoDate, createdAt |-> s]]

StoredClusters(first, second) ==
  [c \in 1..2 |->
     [fingerprint |-> c, status |-> "ACTIVE", categories |-> {"PRODUCT_UPDATE"},
      firstSeenAt |-> IF c = 1 THEN 1 ELSE first + 1,
      lastSignalAt |-> IF c = 1 THEN first ELSE first + second,
      lastSeenAt |-> IF c = 1 THEN first ELSE first + second,
      importanceScore |-> 0, manualBoost |-> 0]]

InitServed ==
  /\ \E first \in 1..MaxAttached, second \in 1..MaxAttached :
       /\ rawSignals = StoredRawSignals(first + second)
       /\ signals = StoredSignals(first, second)
       /\ clusters = StoredClusters(first, second)
       /\ now = first + second
  /\ runs = <<"COMPLETED">>
  /\ InitPipeline
  /\ walk = NoWalk
  /\ codec = NoCodec
  /\ norm = NoNorm
  /\ post = NoPost
  /\ \E c \in 1..2 : calc = [phase |-> "called", cluster |-> c]

\* GET /clusters builds the cluster's entry of the response
ServeCluster ==
  /\ calc.phase = "called"
  /\ calc' = [phase |-> "returned", cluster |-> calc.cluster,
              view |-> ClusterView(calc.cluster)]
  /\ UNCHANGED <<rawSignals, signals, clusters, runs, locks, cyc, started, now, hist,
                 walk, codec, norm, post>>

NextServed == ServeCluster

SpecServed == InitServed /\ [][NextServed]_vars

\* ===================================================================== claims
\* the store loop of the cycle has ended
StoreDone(p) == Running(p) /\ cyc[p].pc \notin {"store", "insert"}

SignalHash(s) == rawSignals[signals[s].rawSignalId].contentHash

Assigned(s) == signals[s].clusterId # NULL

ClustersWith(f) == {c \in DOMAIN clusters : clusters[c].fingerprint = f}

AllIdle == \A p \in Procs : ~Running(p)

\* C1: whatever cycles ran, one after another or overlapping, and however
\* often an item was seen, no two RawSignal rows have the same content hash,
\* and no content hash has more than one Signal: storing a hash that exists
\* creates neither a RawSignal nor a Signal.
C1_OneRawSignalPerHash ==
  /\ \A r1, r2 \in DOMAIN rawSignals :
       rawSignals[r1].contentHash = rawSignals[r2].contentHash => r1 = r2
  /\ \A s1, s2 \in DOMAIN signals :
       signals[s1].rawSignalId = signals[s2].rawSignalId => s1 = s2
  /\ Len(signals) = Len(rawSignals)

\* two overlapping cycles both fetched an item before either had stored it,
\* both have ended their store loops, and the item is stored
C1_Witness ==
  \E p, q \in Procs :
    /\ p # q /\ StoreDone(p) /\ StoreDone(q)
    /\ ~cyc[p].repeat /\ ~cyc[q].repeat
    /\ \E h \in Range(cyc[p].items) \cap Range(cyc[q].items) :
         \E s \in DOMAIN signals : SignalHash(s) = h

\* C2 as stated: of two ACCEPTED signals with one fingerprint whose
\* assignments ran in overlapping transactions, once both are assigned,
\* exactly one cluster has that fingerprint and both signals reference it.
C2_BothReferenceTheFingerprintCluster ==
  \A pair \in hist.overlapped : \A s1, s2 \in pair :
    (s1 # s2 /\ Assigned(s1) /\ Assigned(s2)) =>
      /\ Cardinality(ClustersWith(signals[s1].fingerprint)) = 1
      /\ signals[s1].clusterId \in ClustersWith(signals[s1].fingerprint)
      /\ signals[s2].clusterId \in ClustersWith(signals[s1].fingerprint)

\* C2 amended: no two clusters ever share a fingerprint, no insert of a
\* cluster ever hits the unique fingerprint index, and of two signals assigned
\* in overlapping transactions each one that phase-2 similarity did not attach
\* to an existing cluster references the cluster with its fingerprint.
C2_OneClusterPerFingerprint ==
  /\ \A c1, c2 \in DOMAIN clusters :
       clusters[c1].fingerprint = clusters[c2].fingerprint => c1 = c2
  /\ ~hist.p2002
  /\ \A pair \in hist.overlapped : \A s \in pair :
       (Assigned(s) /\ s \notin hist.bySimilarity) =>
         signals[s].clusterId \in ClustersWith(signals[s].fingerprint)

\* two signals with one fingerprint were assigned in overlapping
\* transactions, neither by similarity, and both are in the same cluster
C2_Witness ==
  \E pair \in hist.overlapped : \E s1, s2 \in pair :
    /\ s1 # s2 /\ Assigned(s1) /\ Assigned(s2)
    /\ signals[s1].fingerprint = signals[s2].fingerprint
    /\ pair \cap hist.bySimilarity = {}
    /\ signals[s1].clusterId = signals[s2].clusterId

\* C3 as stated: when no cycle is in progress, every ACCEPTED signal has a
\* cluster.
C3_AcceptedHasCluster ==
  AllIdle => \A s \in DOMAIN signals :
               signals[s].ingestStatus = "ACCEPTED" => Assigned(s)

\* C4: a signal that is not ACCEPTED has no cluster; only ACCEPTED signals
\* are handed to clustering; and no cycle is ever inside the transaction of
\* assignOrCreateCluster, or ranking its result, for a signal that is not
\* ACCEPTED.
C4_OnlyAcceptedClustered ==
  /\ \A s \in DOMAIN signals :
       signals[s].ingestStatus # "ACCEPTED" => signals[s].clusterId = NULL
  /\ \A p \in Procs : \A k \in DOMAIN cyc[p].normalized :
       signals[cyc[p].normalized[k]].ingestStatus = "ACCEPTED"
  /\ \A p \in Procs :
       (InTransaction(p) \/ cyc[p].pc = "rank") =>
          AcceptedForClustering(CurrentSignal(p))

\* a cycle is past clustering, having rejected or failed one of its signals
\* and clustered another
C4_Witness ==
  \E p \in Procs :
    /\ cyc[p].pc \in {"sweep", "recompute", "finish"}
    /\ \E s1, s2 \in Range(cyc[p].created) :
         /\ signals[s1].ingestStatus \in {"REJECTED", "FAILED"}
         /\ signals[s1].clusterId = NULL
         /\ Assigned(s2)

\* C5: a signal is created PENDING and without a cluster; a status that is no
\* longer PENDING never changes again, and a clusterId that is set never
\* changes again; no signal is ever removed.
C5_WrittenOnce ==
  [][/\ Len(signals') >= Len(signals)
     /\ \A s \in DOMAIN signals' \ DOMAIN signals :
          signals'[s].ingestStatus = "PENDING" /\ signals'[s].clusterId = NULL
     /\ \A s \in DOMAIN signals :
          /\ signals[s].ingestStatus # "PENDING" =>
               signals'[s].ingestStatus = signals[s].ingestStatus
          /\ signals[s].clusterId # NULL =>
               signals'[s].clusterId = signals[s].clusterId]_vars

\* a later cycle has met again the item of a signal that is accepted and
\* clustered, and has ended its store loop
C5_Witness ==
  \E p \in Procs : \E s \in DOMAIN signals :
    /\ StoreDone(p)
    /\ SignalHash(s) \in Range(cyc[p].items)
    /\ s \notin Range(cyc[p].created)
    /\ signals[s].ingestStatus = "ACCEPTED" /\ Assigned(s)

SecondRecompute == \E p \in Procs : cyc[p].pc = "reranked" /\ cyc'[p].pc = "rerankedTwice"

\* updateClusterRanking stamps lastSeenAt with the clock it ran at: no ACTIVE
\* cluster was ranked at an earlier clock reading than now
ClockAsAtLastRanking ==
  \A c \in DOMAIN clusters : clusters[c].status = "ACTIVE" => clusters[c].lastSeenAt = now

\* C10 as stated: the second of two successive recomputeAllRankings calls,
\* with no write to signals, credibility, categories, lastSignalAt or
\* manualBoost in between, leaves every importanceScore as the first left it.
C10_SecondRecomputeSameScores ==
  [][SecondRecompute =>
       \A c \in DOMAIN clusters :
          clusters'[c].importanceScore = clusters[c].importanceScore]_vars

\* C10 amended: the second call leaves every score as the first left it when
\* the clock reads the same at both calls, and never raises a score when the
\* clock has advanced in between.
C10_SecondRecomputeSameClock ==
  [][SecondRecompute =>
       \A c \in DOMAIN clusters :
          /\ clusters'[c].importanceScore <= clusters[c].importanceScore
          /\ ClockAsAtLastRanking =>
               clusters'[c].importanceScore = clusters[c].importanceScore]_vars

\* the second call has run at the clock reading of the first, over a cluster
\* whose last signal is older than that
C10_Witness ==
  \E p \in Procs : \E c \in DOMAIN clusters :
    /\ cyc[p].pc = "rerankedTwice"
    /\ clusters[c].status = "ACTIVE" /\ clusters[c].lastSeenAt = now
    /\ clusters[c].lastSignalAt < now

\* the sort key of row a is below that of row b in the feed's order
KeyBelow(a, b) ==
  \/ a.importanceScore < b.importanceScore
  \/ a.importanceScore = b.importanceScore /\ a.lastSignalAt < b.lastSignalAt
  \/ /\ a.importanceScore = b.importanceScore /\ a.lastSignalAt = b.lastSignalAt
     /\ a.id < b.id

CursorRows == [importanceScore : CursorScores, lastSignalAt : CursorInstants, id : CursorIds]

\* C8: a cursor encoded from a cluster row decodes to that row's
\* importanceScore, to the text of its lastSignalAt instant and to its id, and
\* the keyset predicate built from it admits exactly the rows whose sort key
\* is below that row's.
C8_CursorRoundTrip ==
  codec.phase = "decoded" =>
    /\ codec.decoded.valid
    /\ codec.decoded.importanceScore = codec.row.importanceScore
    /\ DateOf(codec.decoded.lastSignalAt) = codec.row.lastSignalAt
    /\ codec.decoded.id = codec.row.id
    /\ \A r \in CursorRows : CursorWhere(codec.decoded, r) <=> KeyBelow(r, codec.row)

\* a row with a negative score, milliseconds in its instant and a two-digit
\* id has been encoded and decoded
C8_Witness ==
  /\ codec.phase = "decoded"
  /\ codec.row.importanceScore < 0
  /\ codec.row.lastSignalAt % 1000 # 0
  /\ codec.row.id >= 10

NoDuplicates(seq) == \A i, j \in DOMAIN seq : seq[i] = seq[j] => i = j

\* C6 as stated: whatever the pipeline writes between the pages, a walk that
\* follows nextCursor is given no cluster twice, and once it has ended it has
\* been given every cluster that matched the filter when the first cursor was
\* made, was not on the first page, and still matches the filter.
C6_WalkStableUnderWrites ==
  /\ NoDuplicates(walk.seen)
  /\ walk.phase = "done" =>
       \A c \in walk.expected : MatchesFilter(c) => c \in Range(walk.seen)

\* C7: while no cluster that existed when the walk began has had its
\* importanceScore or lastSignalAt written, the walk is given no cluster
\* twice; and every row of a page after the first, a newly inserted cluster's
\* included, sorted below the row the page's cursor was made of.
C7_WalkStableUnderInserts ==
  /\ ~walk.changed => NoDuplicates(walk.seen)
  /\ walk.cursorRow # <<>> =>
       \A i \in DOMAIN walk.lastPage : KeyBelow(walk.lastPage[i], walk.cursorRow[1])

\* a walk of several pages has ended with no earlier cluster written; a
\* cluster inserted between its pages sorts above its last cursor and was
\* never given to it
C7_Witness ==
  /\ walk.phase = "done" /\ walk.pages >= 2 /\ ~walk.changed
  /\ \E c \in walk.inserted :
       /\ MatchesFilter(c) /\ c \notin Range(walk.seen)
       /\ KeyBelow(walk.cursorRow[1], FeedRow(c))

\* ------------------------------------------------------- cluster timestamps
\* C11 (as the specification states it): for every StoryCluster, in every
\* reachable state, lastSignalAt >= firstSeenAt, whatever publication date the
\* feed item carried.
C11_LastSignalNotBeforeFirstSeen ==
  \A c \in DOMAIN clusters : clusters[c].lastSignalAt >= clusters[c].firstSeenAt

\* C12 (as the specification states it): for every StoryCluster, in every
\* reachable state, the stored importanceScore is >= 0, whatever integer the
\* manualBoost column holds.
C12_ScoreNotNegative ==
  \A c \in DOMAIN clusters : clusters[c].importanceScore >= 0

\* the cycle of caller p completes with this step
Completes(p) == cyc[p].pc = "finish" /\ cyc'[p].pc = "idle"

\* lastSignalAt is within CLUSTER_ACTIVE_DAYS of the clock
WithinActiveWindow(c, clock) == c.lastSignalAt >= clock - ActiveWindowHours

\* the sweep of caller p's cycle runs with this step
Sweeps(p) == cyc[p].pc = "sweep" /\ cyc'[p].pc = "recompute"

\* C13 (as the specification states it): at the end of every completed ingest
\* cycle a StoryCluster is ACTIVE if and only if its lastSignalAt is within
\* CLUSTER_ACTIVE_DAYS of now; in particular a cluster that received a signal
\* within the window, a demoted one included, is ACTIVE.  "Only if" is taken
\* at the cycle's sweep, the last step of a cycle that writes a status (the
\* clock goes on while the cycle finishes); "if" when the cycle completes.
C13_ActiveIffWithinWindow ==
  [][\A p \in Procs : \A c \in DOMAIN clusters' :
       /\ Sweeps(p) => (clusters'[c].status = "ACTIVE"
                          => WithinActiveWindow(clusters'[c], now'))
       /\ Completes(p) => (WithinActiveWindow(clusters'[c], now')
                             => clusters'[c].status = "ACTIVE")]_vars

\* ------------------------------------------------------ one normalization
\* the call has passed the length check
PastLengthCheck == norm.pc \notin {"none", "start"}

\* the call was turned away for its length, and no request was made for it
TurnedAwayUnasked ==
  /\ norm.output.ingestStatus = "REJECTED"
  /\ norm.output.ingestReason.kind = "tooShort"
  /\ norm.requests = 0

\* the provider has been called: its first request is due or made
LLMCalled == norm.pc = "attempt" \/ norm.requests >= 1

\* C14 (as the specification states it): normalizeSignal marks a signal
\* REJECTED as too short, without any LLM request, exactly when the lengths of
\* title and text together are below 50; at 50 or more the LLM is called.
C14_ShortByLengthsTogether ==
  PastLengthCheck =>
    IF norm.title + norm.rawText < MIN_TEXT_LENGTH
    THEN TurnedAwayUnasked ELSE LLMCalled /\ ~TurnedAwayUnasked

\* C14 (amended): normalizeSignal marks a signal REJECTED as too short, without
\* any LLM request, exactly when the text it builds is shorter than 50
\* characters: the title and the raw text, and between them, when both are
\* there, a separator of two characters.  At 50 or more the LLM is called.
C14_ShortByJoinedText ==
  PastLengthCheck =>
    IF JoinedLength(norm.title, norm.rawText) < MIN_TEXT_LENGTH
    THEN TurnedAwayUnasked ELSE LLMCalled /\ ~TurnedAwayUnasked

\* a title and a text that make 49 characters with their separator: rejected
\* and written to the row, no request made
C14_Witness ==
  /\ norm.pc = "done"
  /\ norm.title > 0 /\ norm.rawText > 0
  /\ JoinedLength(norm.title, norm.rawText) = MIN_TEXT_LENGTH - 1
  /\ norm.row.ingestStatus = "REJECTED"
  /\ norm.row.ingestReason = TextTooShort(MIN_TEXT_LENGTH - 1)
  /\ norm.requests = 0

\* the step that applies the confidence threshold to a validated result
Decides == norm.pc = "decide" /\ norm'.pc = "update"

\* the reason gives the score to two decimals
ReportsScore(reason, c) ==
  /\ reason.kind = "lowRelevance"
  /\ reason.number * 100 - c <= 50
  /\ c - reason.number * 100 < 50 + 1

\* C15: for a validated LLM result the status is ACCEPTED if and only if
\* confidence >= 0.6 and REJECTED otherwise; exactly 0.6 is ACCEPTED, anything
\* below is REJECTED with a reason that reports the score.
C15_AcceptedIffConfident ==
  [][Decides =>
       /\ norm.response.kind = "valid"
       /\ IF norm.response.confidence >= MIN_CONFIDENCE_E4
          THEN norm'.output.ingestStatus = "ACCEPTED"
          ELSE /\ norm'.output.ingestStatus = "REJECTED"
               /\ ReportsScore(norm'.output.ingestReason, norm.response.confidence)]_vars

\* a result with confidence exactly 0.6 was accepted and written to the row
C15_Witness ==
  /\ norm.pc = "done"
  /\ norm.response.kind = "valid"
  /\ norm.response.confidence = MIN_CONFIDENCE_E4
  /\ norm.row.ingestStatus = "ACCEPTED"

\* C16 (as the specification states it): when a signal is REJECTED for low
\* confidence, the raw response, the confidence, the provider, the model and
\* the prompt version are on the Signal row once normalizeAndUpdateSignal is
\* done, not only in the NormalizeOutput.
C16_RejectionKeepsRawResponse ==
  (norm.pc = "done" /\ norm.output.ingestReason.kind = "lowRelevance") =>
    /\ norm.row.ingestStatus = "REJECTED"
    /\ norm.row.llm = "response"
    /\ norm.row.confidence = norm.response.confidence

\* a request with the normal prompt comes back in this step
Attempts == norm.pc = "attempt" /\ norm'.requests = norm.requests + 1

\* the request with the fallback prompt comes back in this step
FallsBack == norm.pc = "fallback" /\ norm'.requests = norm.requests + 1

\* the call ends, or has ended, FAILED with this error as the reason
FailsWith(n, err) ==
  /\ n.pc \in {"update", "done"}
  /\ n.output.ingestStatus = "FAILED"
  /\ n.output.ingestReason = LLMErrorReason(err)

Wakes == norm.pc = "sleep" /\ norm'.pc # "sleep"

GotBadJson == norm.pc # "none" /\ norm.last = "badjson" /\ norm.lastOn = "prompt"

\* C19: when the answer to an attempt cannot be parsed as JSON, normalize
\* makes no further API request for the signal: the error propagates at once,
\* and the signal ends FAILED with the error summary as its reason.
C19_BadJsonNotRetried ==
  /\ [](GotBadJson =>
          /\ FailsWith(norm, "InvalidJson")
          /\ norm.fallbacks = 0
          /\ norm.pc = "done" =>
               /\ norm.row.ingestStatus = "FAILED"
               /\ norm.row.ingestReason = LLMErrorReason("InvalidJson"))
  /\ [][GotBadJson => norm'.requests = norm.requests /\ norm'.waits = norm.waits]_vars

\* an answer that was not JSON ended a call that had attempts left
C19_Witness ==
  /\ GotBadJson
  /\ norm.pc = "done"
  /\ norm.attempt < norm.maxRetries - 1
  /\ norm.waits >= 1
  /\ norm.row.ingestStatus = "FAILED"
  /\ norm.row.ingestReason = LLMErrorReason("InvalidJson")

\* ------------------------------------------------- bounded normalization
\* C20: during a cycle's normalization phase no more than LLM_CONCURRENCY
\* normalization tasks are in flight at any instant; every freshly stored
\* signal is taken up once, in order, and is then either normalized by one
\* task or skipped by the budget check; no signal is normalized twice: a task
\* is only ever started for a signal that is still PENDING and in no other
\* task's hands, and only a task that ends writes a status.
C20_BoundedNormalization ==
  /\ [](\A p \in Procs :
          /\ Cardinality(cyc[p].inflight) <= DIRECT_MODE_LLM_CONCURRENCY
          /\ cyc[p].inflight # {} => cyc[p].pc = "normalize"
          /\ \A sid \in cyc[p].inflight :
               /\ signals[sid].ingestStatus = "PENDING"
               /\ \A q \in Procs \ {p} : sid \notin cyc[q].inflight)
  /\ [][/\ \A p \in Procs :
             /\ \A sid \in cyc'[p].inflight \ cyc[p].inflight :
                  /\ cyc[p].pc = "normalize"
                  /\ cyc[p].next <= Len(cyc[p].created)
                  /\ sid = cyc[p].created[cyc[p].next]
                  /\ cyc'[p].next = cyc[p].next + 1
             /\ (cyc[p].pc = "normalize" /\ cyc'[p].next # cyc[p].next) =>
                  cyc'[p].next = cyc[p].next + 1
             /\ (cyc[p].pc = "normalize" /\ cyc'[p].pc # "normalize") =>
                  cyc'[p].next = Len(cyc[p].created) + 1 /\ cyc'[p].inflight = {}
        /\ \A sid \in DOMAIN signals :
             signals'[sid].ingestStatus # signals[sid].ingestStatus =>
               /\ signals[sid].ingestStatus = "PENDING"
               /\ \E p \in Procs : sid \in cyc[p].inflight \ cyc'[p].inflight]_vars

\* the limit holds a signal back: as many tasks as allowed are in flight and a
\* stored signal waits for its turn
C20_Witness ==
  \E p \in Procs :
    /\ cyc[p].pc = "normalize"
    /\ Cardinality(cyc[p].inflight) = DIRECT_MODE_LLM_CONCURRENCY
    /\ cyc[p].next <= Len(cyc[p].created)

\* ------------------------------------------------------ order within a cycle
\* the cycle is clustering a signal: inside assignOrCreateCluster or ranking
\* its cluster
Clustering(p) == InTransaction(p) \/ cyc[p].pc = "rank"

\* the cycle has left the clustering loop
PastClustering(p) == cyc[p].pc \in {"sweep", "recompute", "finish"}

\* the signal's rows are in the database
Stored(sid) == sid \in DOMAIN signals /\ signals[sid].rawSignalId \in DOMAIN rawSignals

\* C21: within one cycle a signal is stored before it is normalized (and the
\* store loop has ended before any normalization starts), normalized before
\* its clustering starts (and every normalization of the cycle has ended before
\* any clustering starts), and no signal of the cycle is being clustered, or is
\* clustered later, once the stale sweep and recomputeAllRankings begin.
C21_PhasesInOrder ==
  /\ [](\A p \in Procs :
          /\ \A sid \in cyc[p].inflight \cup Range(cyc[p].normalized) :
               Stored(sid) /\ sid \in Range(cyc[p].created)
          /\ cyc[p].inflight # {} =>
               cyc[p].pc = "normalize" /\ cyc[p].i > Len(cyc[p].items)
          /\ (cyc[p].pc = "cluster" \/ Clustering(p) \/ PastClustering(p)) =>
               /\ cyc[p].inflight = {}
               /\ cyc[p].next > Len(cyc[p].created)
          /\ Clustering(p) => signals[CurrentSignal(p)].ingestStatus # "PENDING"
          /\ PastClustering(p) =>
               /\ cyc[p].target = NULL
               /\ \A f \in FPs : locks[f] # p)
  /\ [][\A p \in Procs : \A sid \in Range(cyc[p].created) :
          /\ signals'[sid].ingestStatus # signals[sid].ingestStatus =>
               /\ cyc[p].pc = "normalize"
               /\ signals[sid].clusterId = NULL
          /\ signals'[sid].clusterId # signals[sid].clusterId =>
               /\ cyc[p].pc = "write" /\ CurrentSignal(p) = sid
               /\ signals[sid].ingestStatus # "PENDING"
          /\ PastClustering(p) => signals'[sid] = signals[sid]]_vars

\* a cycle that stored two signals has normalized and clustered both, and its
\* sweep has run
C21_Witness ==
  \E p \in Procs :
    /\ cyc[p].pc = "recompute"
    /\ Len(cyc[p].created) = 2
    /\ \A sid \in Range(cyc[p].created) : Assigned(sid)

\* ------------------------------------------------------------- time budget
\* the stopwatch reading is more than `margin` short of the timeout
PastDeadline(e, margin) == e > DIRECT_MODE_TIMEOUT_TICKS - margin

\* the signals a cycle stored that no mapper took up: still PENDING and in no
\* mapper's hands although their turn has come
Skipped(p) ==
  {j \in 1..(cyc[p].next - 1) :
     /\ j <= Len(cyc[p].created)
     /\ signals[cyc[p].created[j]].ingestStatus = "PENDING"
     /\ cyc[p].created[j] \notin cyc[p].inflight}

Ends(p) == Running(p) /\ cyc'[p].pc = "idle"

\* C23: a run is written once, when its cycle ends.  It becomes COMPLETED
\* whenever the cycle reaches its last step and that update succeeds, whatever
\* feeds failed, whatever signals failed to normalize, link or cluster, and
\* whether or not the time budget stopped the loops; it becomes FAILED only
\* when an error of the coordinator's own steps reached the catch block.
C23_FailedOnlyByCoordinator ==
  [][/\ \A r \in DOMAIN runs : runs'[r] # runs[r] =>
          /\ runs[r] = "RUNNING"
          /\ \E p \in Procs : Ends(p) /\ cyc[p].run = r
     /\ \A p \in Procs : Ends(p) =>
          /\ runs'[cyc[p].run] = "COMPLETED" <=> cyc[p].threw = "none"
          /\ runs'[cyc[p].run] = "FAILED" =>
               cyc[p].threw \in {"sweep", "recompute", "finish"}
          /\ cyc[p].threw = "none" => cyc[p].pc = "finish"]_vars

\* the one cycle that ran is COMPLETED although it left one signal accepted but
\* without a cluster and another not normalized at all
C23_Witness ==
  /\ AllIdle /\ started = 1
  /\ runs = <<"COMPLETED">>
  /\ \E s1, s2 \in DOMAIN signals :
       /\ signals[s1].ingestStatus = "ACCEPTED" /\ ~Assigned(s1)
       /\ signals[s2].ingestStatus = "PENDING"

\* ------------------------------------------------------------- POST /ingest
\* the token of a bearer Authorization header, Null where there is none
BearerToken(req) ==
  IF /\ req.authorization # Null
     /\ Len(req.authorization) >= 7
     /\ SubSeq(req.authorization, 1, 7) = BearerPrefix
  THEN SubSeq(req.authorization, 8, Len(req.authorization))
  ELSE Null

\* the secrets that are configured: set, and not empty
Configured(texts) == texts \ {Undefined, Null, <<>>}

\* the request is past the authorization check
Checked == post.phase \in {"authorized", "responded"} /\ "req" \in DOMAIN post

\* C24: POST /ingest goes on to runIngestCycle only if the request carries a
\* value equal to a configured secret (as bearer token the ingest or the
\* scheduler secret, as x-cron-secret header or ?secret= parameter the ingest
\* secret); every other request is answered 401, with no secret configured
\* every request is, and only a request that was let through ever begins a
\* cycle or creates an IngestRun.
C24_OnlyWithSecret ==
  /\ [](Checked =>
          /\ post.phase = "authorized" =>
               \/ BearerToken(post.req) \in Configured({post.INGEST_SECRET, post.CRON_SECRET})
               \/ post.req.xCronSecret \in Configured({post.INGEST_SECRET})
               \/ post.req.secret \in Configured({post.INGEST_SECRET})
          /\ post.phase = "responded" =>
               post.status = 401 /\ runs = <<>> /\ started = 0 /\ AllIdle
          /\ Configured({post.INGEST_SECRET, post.CRON_SECRET}) = {} =>
               post.phase = "responded")
  /\ [][(runs' # runs \/ started' # started \/ cyc' # cyc) =>
          post.phase \in {"authorized", "running"}]_vars

\* the ingest secret is set to the empty text and the request carries the
\* empty text in all three channels: it was answered 401
C24_Witness ==
  /\ post.phase = "responded" /\ post.status = 401
  /\ post.INGEST_SECRET = <<>> /\ post.CRON_SECRET = Undefined
  /\ BearerToken(post.req) = <<>>
  /\ post.req.xCronSecret = <<>> /\ post.req.secret = <<>>

\* the request carries the ingest secret, which is configured, in one of the
\* three channels
CarriesIngestSecret ==
  /\ Configured({post.INGEST_SECRET}) # {}
  /\ \/ BearerToken(post.req) = post.INGEST_SECRET
     \/ post.req.xCronSecret = post.INGEST_SECRET
     \/ post.req.secret = post.INGEST_SECRET

\* C25 (as the specification states it): a request that carries the
\* configured ingest secret in any one of the three channels (bearer token,
\* x-cron-secret header, ?secret= parameter) is authorized, whatever the other
\* two channels contain.
C25_AnyChannelSuffices ==
  (Checked /\ CarriesIngestSecret) => post.phase = "authorized"

\* C25 (amended): the channels are looked at in order and the first one
\* decides.  A request with a bearer Authorization header is authorized
\* exactly when its token is the ingest or the scheduler secret, whatever the
\* other two channels contain; a request without one is authorized exactly
\* when its x-cron-secret header or its ?secret= parameter is the ingest secret.
C25_FirstChannelDecides ==
  Checked =>
    (post.phase = "authorized" <=>
       IF BearerToken(post.req) # Null
       THEN BearerToken(post.req) \in Configured({post.INGEST_SECRET, post.CRON_SECRET})
       ELSE \/ post.req.xCronSecret \in Configured({post.INGEST_SECRET})
            \/ post.req.secret \in Configured({post.INGEST_SECRET}))

\* a request with an Authorization header of another scheme and a wrong
\* x-cron-secret was let through for its ?secret= parameter
C25_Witness ==
  /\ post.phase = "authorized"
  /\ post.req.authorization # Null /\ BearerToken(post.req) = Null
  /\ post.req.xCronSecret = Wrong
  /\ post.req.secret = post.INGEST_SECRET

C27_CategoriesAreUnion ==
  (\A p \in Procs : ~InTransaction(p)) =>
     \A c \in DOMAIN clusters :
        clusters[c].categories = UNION {signals[s].categories : s \in ClusterSignals(c)}

\* the distinct source domains among the signals of the scored cluster
ScoredDomains == {rawSignals[signals[i].rawSignalId].sourceDomain : i \in DOMAIN signals}

\* C28: the source-diversity component of a returned breakdown is 2.0 for each
\* distinct source domain among the cluster's signals while there are at most
\* RANKING_MAX_DOMAINS of them, and 2.0 * RANKING_MAX_DOMAINS (12.0) from there
\* on; how many signals share a domain does not enter.
C28_SourceDiversityCapped ==
  calc.phase = "returned" =>
    /\ calc.breakdown.sourceDiversity =
         IF Cardinality(ScoredDomains) <= RANKING_MAX_DOMAINS
         THEN 20000 * Cardinality(ScoredDomains)
         ELSE 20000 * RANKING_MAX_DOMAINS
    /\ calc.breakdown.sourceDiversity <= 120000

\* a cluster of eight domains, two of its signals repeating a domain, scored 12.0
C28_Witness ==
  /\ calc.phase = "returned"
  /\ Cardinality(ScoredDomains) = 8
  /\ Len(signals) = 10
  /\ calc.breakdown.sourceDiversity = 120000

\* C29: the category component of a returned breakdown is 3.0 when the
\* cluster's categories include SAFETY_YOUTH_RISK or REGULATORY_LEGAL and 2.0
\* otherwise, the empty set included: twice the largest weight, whatever the
\* number of categories.
C29_CategoryIsMaxWeight ==
  calc.phase = "returned" =>
    calc.breakdown.category =
      IF clusters[1].categories \cap {"SAFETY_YOUTH_RISK", "REGULATORY_LEGAL"} # {}
      THEN 30000 ELSE 20000

\* the cluster of the test, with two categories of weight 1.5 and one of 1.0,
\* scored 3.0
C29_Witness ==
  /\ calc.phase = "returned"
  /\ clusters[1].categories = {"SAFETY_YOUTH_RISK", "REGULATORY_LEGAL", "PRODUCT_UPDATE"}
  /\ calc.breakdown.category = 30000

\* a list of strings
StringList(v) == v.t = "array" /\ \A i \in DOMAIN v.items : v.items[i].t = "string"

\* C30: a result is accepted exactly when its summary is a string of at most
\* 500 characters, its suggestedHeadline a string of at most 120, its
\* categories a non-empty list of category values, its confidence a number
\* from 0 to 1, and its entities an object each of whose four lists is a list
\* of strings or missing; on acceptance a missing list has become the empty list.
C30_AcceptsExactlyValid ==
  calc.phase = "parsed" =>
    /\ calc.success <=>
         /\ calc.input.t = "object"
         /\ calc.input.summary.t = "string" /\ calc.input.summary.length <= 500
         /\ calc.input.suggestedHeadline.t = "string"
         /\ calc.input.suggestedHeadline.length <= 120
         /\ calc.input.categories.t = "array"
         /\ calc.input.categories.items # <<>>
         /\ \A i \in DOMAIN calc.input.categories.items :
              /\ calc.input.categories.items[i].t = "string"
              /\ calc.input.categories.items[i].value \in Category
         /\ calc.input.confidence.t = "number"
         /\ calc.input.confidence.e2 \in 0..100
         /\ calc.input.entities.t = "object"
         /\ \A list \in EntityLists :
              calc.input.entities[list].t = "undefined" \/ StringList(calc.input.entities[list])
    /\ calc.success =>
         \A list \in EntityLists :
           /\ StringList(calc.data.entities[list])
           /\ calc.input.entities[list].t = "undefined" => calc.data.entities[list].items = <<>>

\* a result at every limit (500 and 120 characters, confidence 1), with one
\* list of entities missing, was accepted
C30_Witness ==
  /\ calc.phase = "parsed"
  /\ calc.success
  /\ calc.input.summary.length = 500
  /\ calc.input.suggestedHeadline.length = 120
  /\ calc.input.confidence.e2 = 100
  /\ calc.input.entities.topics.t = "undefined"
  /\ calc.input.entities.platforms.t = "array"
  /\ calc.data.entities.topics.items = <<>>

\* --------------------------------------------------- the platform bonus
\* a candidate's cosine with the platform-overlap bonus added
AdjustedScore(i) ==
  calc.candidates[i].cosine
    + platformOverlapBonus(calc.signalPlatforms, calc.candidates[i].platforms)

\* C31 (as the specification states it): the bonus is added to each
\* candidate's cosine before the threshold test: if some candidate's cosine
\* plus bonus reaches the threshold a cluster is returned, and the one returned
\* has the highest adjusted score.
C31_BonusBeforeThreshold ==
  (/\ calc.phase = "returned"
   /\ \E i \in DOMAIN calc.candidates : AdjustedScore(i) >= CLUSTER_SIMILARITY_THRESHOLD_E2)
  => /\ calc.cluster # NULL
     /\ \A j \in DOMAIN calc.candidates : AdjustedScore(j) <= AdjustedScore(calc.cluster)

\* ------------------------------------------------- RawSignal and Signal
\* the signals that reference a raw signal
SignalsOf(r) == {s \in DOMAIN signals : signals[s].rawSignalId = r}

\* C33: in every state each RawSignal is referenced by exactly one Signal and
\* each Signal references a RawSignal that exists; and a storeRawSignal that
\* returns no created signal leaves both tables as they were while
\* processFetchedItems moves on to the next item.
C33_StoredInPairs ==
  /\ [](/\ \A r \in DOMAIN rawSignals : Cardinality(SignalsOf(r)) = 1
        /\ \A s \in DOMAIN signals : signals[s].rawSignalId \in DOMAIN rawSignals)
  /\ [][\A p \in Procs :
          (cyc[p].pc = "insert" /\ cyc'[p] # cyc[p] /\ cyc'[p].created = cyc[p].created)
          => /\ rawSignals' = rawSignals
             /\ signals' = signals
             /\ cyc'[p].i = cyc[p].i + 1
             /\ cyc'[p].pc \in {"store", "normalize", "cluster", "sweep"}]_vars

\* the one cycle that ran met a failure on its first item, stored nothing for
\* it, and stored the second item with its signal
C33_Witness ==
  /\ started = 1
  /\ \E p \in Procs :
       /\ cyc[p].items = <<1, 2>>
       /\ Len(cyc[p].created) = 1
       /\ rawSignals[signals[cyc[p].created[1]].rawSignalId].contentHash = 2
  /\ ~isSignalDuplicate(1)

\* ------------------------------------------------------------- one page
\* the clusters that match the filter of the feed
Matching == {c \in DOMAIN clusters : MatchesFilter(c)}

\* the clusters a request of the walk selects: those matching the filter, for
\* a request with a cursor those sorting below the row the cursor was made of
Selected ==
  {c \in Matching :
     walk.phase = "walking" => KeyBelow(FeedRow(c), walk.lastPage[Len(walk.lastPage)])}

\* C34: the response to a request with limit L holds at most L clusters;
\* hasMore is true exactly when more than L rows are selected; nextCursor is
\* there exactly when hasMore is true and is then the encoding of the last row
\* returned.  Over a database at rest a walk that follows nextCursor ends after
\* finitely many pages: every page after the first gives a cluster not given
\* before, only matching clusters are given, none twice, so there are no more
\* pages than matching clusters (one page if there are none), and the walk has
\* ended once a response says hasMore false.
C34_PagesAndCursor ==
  /\ [][walk'.pages = walk.pages + 1 =>
          /\ Len(walk'.lastPage) <= walk'.limit
          /\ walk'.hasMore <=> Cardinality(Selected) > walk'.limit
          /\ walk'.cursor # <<>> <=> walk'.hasMore
          /\ walk'.hasMore =>
               walk'.cursor = encodeCursor(walk'.lastPage[Len(walk'.lastPage)])
          /\ walk.phase = "walking" => Len(walk'.seen) > Len(walk.seen)
          /\ walk'.phase = IF walk'.hasMore THEN "walking" ELSE "done"]_vars
  /\ [](/\ NoDuplicates(walk.seen)
        /\ Range(walk.seen) \subseteq Matching
        /\ walk.pages <= Cardinality(Matching) \/ walk.pages = 1
        /\ walk.phase = "done" => ~walk.hasMore /\ Range(walk.seen) = Matching)

\* a walk of three pages of one cluster each has ended, the clusters all of one
\* score
C34_Witness ==
  /\ walk.phase = "done" /\ ~walk.hasMore
  /\ walk.limit = 1 /\ walk.pages = 3
  /\ Len(walk.seen) = 3
  /\ \A c \in DOMAIN clusters : clusters[c].importanceScore = 7829

\* ------------------------------------------------------------ page order
\* C35: on every page each row comes before the rows after it by
\* importanceScore descending, then lastSignalAt descending, then id
\* descending; and every row of a page requested with a cursor is strictly
\* below the row that cursor was made of, never equal to it or above.
C35_PageOrdered ==
  /\ \A i, j \in DOMAIN walk.lastPage :
       i < j =>
         \/ walk.lastPage[i].importanceScore > walk.lastPage[j].importanceScore
         \/ /\ walk.lastPage[i].importanceScore = walk.lastPage[j].importanceScore
            /\ walk.lastPage[i].lastSignalAt > walk.lastPage[j].lastSignalAt
         \/ /\ walk.lastPage[i].importanceScore = walk.lastPage[j].importanceScore
            /\ walk.lastPage[i].lastSignalAt = walk.lastPage[j].lastSignalAt
            /\ walk.lastPage[i].id > walk.lastPage[j].id
  /\ walk.cursorRow # <<>> =>
       \A i \in DOMAIN walk.lastPage :
         /\ walk.lastPage[i] # walk.cursorRow[1]
         /\ KeyBelow(walk.lastPage[i], walk.cursorRow[1])

\* a second page of two rows that differ from each other and from the cursor's
\* row in nothing but the id
C35_Witness ==
  /\ walk.pages = 2 /\ Len(walk.lastPage) = 2
  /\ \A i \in 1..2 :
       /\ walk.lastPage[i].importanceScore = walk.cursorRow[1].importanceScore
       /\ walk.lastPage[i].lastSignalAt = walk.cursorRow[1].lastSignalAt
  /\ walk.cursorRow[1].id > walk.lastPage[1].id
  /\ walk.lastPage[1].id > walk.lastPage[2].id

\* ------------------------------------------------------------ field limits
\* C36 (as the specification states it): whatever the length of the input,
\* the text written to rawText and to llmRawResponse has at most 20 000
\* characters, a cluster's headline at most 200 and its contextSummary at most
\* 1000, the ellipsis counted; and headline and contextSummary are never null.
C36_WithinLimits ==
  calc.phase = "stored" =>
    /\ calc.column \in {"rawText", "llmRawResponse"} => calc.stored.length <= 20000
    /\ calc.column = "headline" => ~calc.stored.isNull /\ calc.stored.length <= 200
    /\ calc.column = "contextSummary" => ~calc.stored.isNull /\ calc.stored.length <= 1000

\* ------------------------------------------------------------ run records
\* C37 (as the specification states it): once a call of runIngestCycle has
\* returned or thrown, no IngestRun it created is still RUNNING, in direct
\* mode and in queue mode alike.
C37_NoRunLeftRunning ==
  (\A p \in Procs : ~Running(p)) => \A r \in DOMAIN runs : runs[r] # "RUNNING"

\* ------------------------------------------------------- no empty cluster
\* C38: in every committed state every StoryCluster has at least one signal
\* attached; a transaction that fails after creating the cluster leaves no
\* cluster behind.
C38_ClusterHasSignal ==
  /\ [](\A c \in DOMAIN clusters : AttachedTo(c) # {})
  /\ [][\A p \in Procs :
          (cyc[p].pc = "write" /\ cyc'[p].pc = "cluster" /\ cyc'[p].k = cyc[p].k + 1)
            => clusters' = clusters /\ signals' = signals]_vars

\* a cycle's transaction for a signal that needed a cluster of its own was
\* aborted: the loop has passed the signal, which has no cluster, and no
\* cluster has its fingerprint, while another cluster was created and kept
C38_Witness ==
  \E p \in Procs : \E j \in DOMAIN cyc[p].normalized :
    /\ j < cyc[p].k
    /\ signals[cyc[p].normalized[j]].ingestStatus = "ACCEPTED"
    /\ signals[cyc[p].normalized[j]].clusterId = NULL
    /\ FingerprintFree(signals[cyc[p].normalized[j]].fingerprint)
    /\ \E c \in DOMAIN clusters : c > 1 /\ AttachedTo(c) # {}

\* ------------------------------------------------------------ signalCount
\* C39 (as the specification states it): in the response, a cluster's
\* signalCount is the number of signals attached to the cluster, whatever
\* that number is, above the 10 given in signals[] included.
C39_SignalCountIsTotal ==
  calc.phase = "returned" =>
    calc.view.signalCount = Cardinality(AttachedTo(calc.view.id))

====
